---------------------------- MODULE Spec2Model ----------------------------
(***************************************************************************)
(* A model of go-keychain's value bridge (corefoundation.go) and of its    *)
(* attributed item/query engine (keychain.go).                              *)
(*                                                                         *)
(* Native byte strings (Go string, []byte) are run-length sequences        *)
(*   << [b |-> byte, hi |-> h, lo |-> l], ... >>                           *)
(* a run standing for h * 2^16 + l copies of byte b, adjacent runs having  *)
(* different bytes.  Lengths up to and beyond 2^32 are therefore exact     *)
(* values although TLC's integers are 32 bit wide.                         *)
(***************************************************************************)
EXTENDS Integers, Sequences, FiniteSets, TLC

VARIABLES
    cfconst,   \* the constant objects of the frameworks, by address
    pkgkeys,   \* the package's key variables (ServiceKey, ...), by constant
    conv,      \* SpecBridge: the last value-bridge round trip
    item,      \* SpecItem: Item.attr, a map from key to native value
    updateItem, \* the attr of the updateItem of a call of UpdateItem
    lastSet,   \* SpecItem: per key, the argument of the most recent setter call
    heap,      \* the external (CoreFoundation) objects that are alive
    store,     \* the secure-item store: the set of its records
    locked,    \* the store refuses interaction (errSecInteractionNotAllowed)
    held,      \* references QueryItemRef handed to the caller, not yet released
    last,      \* the outcome of the last operation
    scen       \* progress of the Add -> Query -> Delete -> Query scenario

vars ==
    <<cfconst, pkgkeys, conv, item, updateItem, lastSet, heap, store, locked, held,
      last, scen>>

(***************************************************************************)
(* Bounds of the model.                                                    *)
(***************************************************************************)
MaxRuns == 3        \* runs per enumerated native string / byte slice
MaxHeld == 1        \* references a caller keeps from QueryItemRef
MaxEntries == 2     \* entries of an attribute map handed to the builder
MaxTouched == 2     \* keys of one Item the setters are called for
MaxBuilt == 2       \* dictionaries a caller keeps from ConvertMapToCFDictionary
MaxRecords == 2     \* records in the store
MaxElems == 2       \* elements of an array response, of a list made an array

(***************************************************************************)
(* Lengths: hi * 2^16 + lo.                                                *)
(***************************************************************************)
Base == 256 * 256

Big(h, l) == [hi |-> h, lo |-> l]

BigZero == Big(0, 0)

BigAdd(x, y) ==
    LET s == x.lo + y.lo
    IN  Big(x.hi + y.hi + (s \div Base), s % Base)

BigGt(x, y) == x.hi > y.hi \/ (x.hi = y.hi /\ x.lo > y.lo)

\* x - k for a small k <= x
BigSubSmall(x, k) ==
    IF x.lo >= k THEN Big(x.hi, x.lo - k) ELSE Big(x.hi - 1, x.lo + Base - k)

\* x <= k for a small k
BigLeqSmall(x, k) == x.hi = 0 /\ x.lo <= k

BigTimes3(x) == BigAdd(x, BigAdd(x, x))

\* math.MaxUint32
MaxUint32 == Big(65535, 65535)

\* C.int(n) of a 64-bit CFIndex n: the low 32 bits, read as signed
CIntIsNegative(x) == (x.hi % Base) >= 32768

Run(b, c) == [b |-> b, hi |-> c.hi, lo |-> c.lo]

Count(r) == Big(r.hi, r.lo)

\* the native string whose bytes are the plain sequence p (p has no two
\* equal neighbours merged yet)
RECURSIVE Norm(_)
Norm(s) ==
    IF Len(s) <= 1 THEN s
    ELSE LET t == Norm(Tail(s))
             h == Head(s)
         IN  IF h.b = Head(t).b
             THEN <<Run(h.b, BigAdd(Count(h), Count(Head(t))))>> \o Tail(t)
             ELSE <<h>> \o t

Str(p) == Norm([i \in 1..Len(p) |-> Run(p[i], Big(0, 1))])

\* len(s)
RECURSIVE GoLen(_)
GoLen(s) == IF s = <<>> THEN BigZero ELSE BigAdd(Count(Head(s)), GoLen(Tail(s)))

\* the first k bytes of s (k small), as a plain sequence
RECURSIVE TakeBytes(_, _)
TakeBytes(s, k) ==
    IF k = 0 \/ s = <<>> THEN <<>>
    ELSE LET h == Head(s)
         IN  IF BigLeqSmall(Count(h), k)
             THEN [i \in 1..h.lo |-> h.b] \o TakeBytes(Tail(s), k - h.lo)
             ELSE [i \in 1..k |-> h.b]

\* s without its first k bytes (k small)
RECURSIVE DropBytes(_, _)
DropBytes(s, k) ==
    IF k = 0 \/ s = <<>> THEN s
    ELSE LET h == Head(s)
         IN  IF BigLeqSmall(Count(h), k)
             THEN DropBytes(Tail(s), k - h.lo)
             ELSE <<Run(h.b, BigSubSmall(Count(h), k))>> \o Tail(s)

(***************************************************************************)
(* UTF-8 (unicode/utf8 and CoreFoundation's kCFStringEncodingUTF8).        *)
(***************************************************************************)
RuneSize(b0) ==
    IF b0 < 128 THEN 1
    ELSE IF b0 >= 194 /\ b0 <= 223 THEN 2
    ELSE IF b0 >= 224 /\ b0 <= 239 THEN 3
    ELSE IF b0 >= 240 /\ b0 <= 244 THEN 4
    ELSE 0

\* p: the next bytes (at most 4) of a string, p[1] >= 128
RuneOk(p) ==
    LET b0 == p[1]
        size == RuneSize(b0)
        lo1 == IF b0 = 224 THEN 160 ELSE IF b0 = 240 THEN 144 ELSE 128
        hi1 == IF b0 = 237 THEN 159 ELSE IF b0 = 244 THEN 143 ELSE 191
    IN  /\ size > 1
        /\ Len(p) >= size
        /\ p[2] >= lo1 /\ p[2] <= hi1
        /\ \A i \in 3..size : p[i] >= 128 /\ p[i] <= 191

RuneValue(p) ==
    LET b0 == p[1]
        size == RuneSize(b0)
    IN  IF size = 2 THEN (b0 - 192) * 64 + (p[2] - 128)
        ELSE IF size = 3
        THEN (b0 - 224) * 4096 + (p[2] - 128) * 64 + (p[3] - 128)
        ELSE (b0 - 240) * 262144 + (p[2] - 128) * 4096
               + (p[3] - 128) * 64 + (p[4] - 128)

\* utf8.ValidString
RECURSIVE ValidString(_)
ValidString(s) ==
    IF s = <<>> THEN TRUE
    ELSE IF Head(s).b < 128 THEN ValidString(Tail(s))
    ELSE LET p == TakeBytes(s, 4)
         IN  RuneOk(p) /\ ValidString(DropBytes(s, RuneSize(p[1])))

\* the characters of a UTF-8 byte string, as runs of code points
RECURSIVE DecodeUTF8(_)
DecodeUTF8(s) ==
    IF s = <<>> THEN <<>>
    ELSE IF Head(s).b < 128 THEN <<Head(s)>> \o DecodeUTF8(Tail(s))
    ELSE LET p == TakeBytes(s, 4)
         IN  <<Run(RuneValue(p), Big(0, 1))>>
                 \o DecodeUTF8(DropBytes(s, RuneSize(p[1])))

EncodeRune(cp) ==
    IF cp < 128 THEN <<cp>>
    ELSE IF cp < 2048 THEN <<192 + (cp \div 64), 128 + (cp % 64)>>
    ELSE IF cp < 65536
    THEN <<224 + (cp \div 4096), 128 + ((cp \div 64) % 64), 128 + (cp % 64)>>
    ELSE <<240 + (cp \div 262144), 128 + ((cp \div 4096) % 64),
           128 + ((cp \div 64) % 64), 128 + (cp % 64)>>

\* the UTF-8 bytes of a sequence of code point runs (a run of a character
\* beyond ASCII has count 1, see DecodeUTF8)
RECURSIVE EncodeRuns(_)
EncodeRuns(cs) ==
    IF cs = <<>> THEN <<>>
    ELSE LET h == Head(cs)
         IN  (IF h.b < 128 THEN <<h>>
              ELSE LET e == EncodeRune(h.b)
                   IN  [i \in 1..Len(e) |-> Run(e[i], Big(0, 1))])
                 \o EncodeRuns(Tail(cs))

EncodeUTF8(cs) == Norm(EncodeRuns(cs))

\* the number of UTF-16 units of a character sequence
RECURSIVE UTF16Len(_)
UTF16Len(cs) ==
    IF cs = <<>> THEN BigZero
    ELSE BigAdd(IF Head(cs).b >= 65536
                THEN BigAdd(Count(Head(cs)), Count(Head(cs)))
                ELSE Count(Head(cs)),
                UTF16Len(Tail(cs)))

IsASCII(cs) == \A i \in 1..Len(cs) : cs[i].b < 128

(***************************************************************************)
(* External objects.  Every object is a record of the same shape; the      *)
(* fields a type does not use keep their default.                          *)
(***************************************************************************)
NoObj ==
    [type |-> "null", rc |-> 0, bytes |-> <<>>, eightBit |-> FALSE,
     ntype |-> "", num |-> 0, keys |-> <<>>, vals |-> <<>>]

\* the string object with the characters cs
CFStringOf(cs) ==
    [NoObj EXCEPT !.type = "CFString", !.rc = 1, !.bytes = cs,
                  !.eightBit = IsASCII(cs)]

\* CFStringCreateWithBytes(alloc, p, n, kCFStringEncodingUTF8, false): NULL
\* when the bytes are no UTF-8
CFStringCreateWithBytes(s) ==
    IF ~ValidString(s) THEN NoObj ELSE CFStringOf(DecodeUTF8(s))

\* CFDataCreate(alloc, p, n)
CFDataCreate(b) == [NoObj EXCEPT !.type = "CFData", !.rc = 1, !.bytes = b]


(***************************************************************************)
(* Native dynamic values (interface{}): one record shape for every type.   *)
(*   t    the dynamic type                                                 *)
(*   b    the bytes of a string or []byte                                  *)
(*   i    the number of an int32 (or other numeric type), 1/0 of a bool,   *)
(*        the object id of a C.CFTypeRef                                   *)
(*   nil  a nil []byte                                                     *)
(***************************************************************************)
GoVal(t, b, i) == [t |-> t, b |-> b, i |-> i, nil |-> FALSE]

GoStringVal(s) == GoVal("string", s, 0)

GoBytesVal(b) == GoVal("bytes", b, 0)

GoNilBytes == [t |-> "bytes", b |-> <<>>, i |-> 0, nil |-> TRUE]

GoInt32Val(n) == GoVal("int32", <<>>, n)

GoBoolVal(x) == GoVal("bool", <<>>, IF x THEN 1 ELSE 0)

GoRefVal(id) == GoVal("ref", <<>>, id)

GoNone == GoVal("none", <<>>, 0)

(***************************************************************************)
(* corefoundation.go: the value bridge.                                    *)
(***************************************************************************)
BytesToCFData(b) ==
    IF BigGt(GoLen(b), MaxUint32)
    THEN [err |-> TRUE, obj |-> NoObj]
    ELSE [err |-> FALSE, obj |-> CFDataCreate(b)]

\* C.GoBytes(p, C.int(CFDataGetLength(d))): C.int keeps the low 32 bits of
\* the 64-bit length, and C.GoBytes panics on a negative length
CFDataToBytes(o) ==
    IF CIntIsNegative(GoLen(o.bytes))
    THEN [panic |-> TRUE, out |-> GoNone]
    ELSE [panic |-> FALSE, out |-> GoBytesVal(o.bytes)]

\* the value a signed integer of the given width holds after a store of v
WrapSigned(v, half) == ((v + half) % (2 * half)) - half

NumberWidthHalf(ntype) ==
    IF ntype = "SInt8" THEN 128
    ELSE IF ntype = "SInt16" THEN 32768
    ELSE 0

\* CFNumberCreate(alloc, theType, valuePtr): reads a value of theType's
\* width at valuePtr (v: the 32-bit value stored there)
CFNumberCreate(ntype, v) ==
    [NoObj EXCEPT !.type = "CFNumber", !.rc = 1, !.ntype = ntype,
                  !.num = IF NumberWidthHalf(ntype) = 0 THEN v
                          ELSE WrapSigned(v, NumberWidthHalf(ntype))]

\* a mutant of Int32ToCFNumber: the number is created as a 16-bit integer
Int32ToCFNumber_Narrow(u) == CFNumberCreate("SInt16", u)

Int32ToCFNumber(u) == CFNumberCreate("SInt32", u)

StringToCFString(s) ==
    IF ~ValidString(s) THEN [err |-> TRUE, obj |-> NoObj]
    ELSE IF BigGt(GoLen(s), MaxUint32) THEN [err |-> TRUE, obj |-> NoObj]
    ELSE [err |-> FALSE, obj |-> CFStringCreateWithBytes(s)]

\* C.GoString(p): the bytes before the first zero byte
RECURSIVE CGoString(_)
CGoString(cs) ==
    IF cs = <<>> \/ Head(cs).b = 0 THEN <<>>
    ELSE <<Head(cs)>> \o CGoString(Tail(cs))

\* the outcomes of CFStringGetCStringPtr(s, kCFStringEncodingUTF8) # NULL:
\* a pointer exists only to 8-bit (ASCII) contents, and need not exist then
CStringPtrOutcomes(o) == IF o.eightBit THEN {TRUE, FALSE} ELSE {FALSE}

\* cptr: CFStringGetCStringPtr returned a pointer
CFStringToString(o, cptr) ==
    IF cptr THEN CGoString(o.bytes)
    ELSE LET length == UTF16Len(o.bytes)
             maxBufLen == BigTimes3(length)
         IN  IF length = BigZero THEN <<>>
             ELSE IF maxBufLen = BigZero THEN <<>>
             ELSE EncodeUTF8(o.bytes)

\* CFNumberGetType
CFNumberGetType(o) == o.ntype

CFNumberToInterface(o) ==
    LET typ == CFNumberGetType(o)
        goType ==
            CASE typ = "SInt8" -> "int8"
              [] typ = "SInt16" -> "int16"
              [] typ = "SInt32" -> "int32"
              [] typ = "SInt64" -> "int64"
              [] typ = "Float32" -> "float32"
              [] typ = "Float64" -> "float64"
              [] typ = "Char" -> "byte"
              [] typ = "Short" -> "int16"
              [] typ = "Int" -> "int32"
              [] typ = "Long" -> "int"
              [] typ = "LongLong" -> "int64"
              [] typ = "Float" -> "float32"
              [] typ = "Double" -> "float64"
              [] typ = "CFIndex" -> "int"
              [] typ = "NSInteger" -> "int"
              [] OTHER -> "panic"
    IN  IF goType = "panic" THEN [panic |-> TRUE, out |-> GoNone]
        ELSE [panic |-> FALSE, out |-> GoVal(goType, <<>>, o.num)]

(***************************************************************************)
(* Inputs of the value bridge.                                             *)
(***************************************************************************)
\* the byte strings of at most k runs over bytes B with run lengths C
RECURSIVE RunSeqs(_, _, _)
RunSeqs(B, C, k) ==
    IF k = 0 THEN {<<>>}
    ELSE LET S == RunSeqs(B, C, k - 1)
         IN  S \cup UNION { UNION { { <<Run(b, c)>> \o s :
                               s \in {t \in S : /\ Len(t) = k - 1
                                                /\ (t = <<>> \/ Head(t).b # b)} }
                                    : c \in C } : b \in B }

\* NUL, 'a', and the two bytes of U+00E9
StringBytes == {0, 97, 195, 169}

\* 1, 2 and 2^32 bytes
StringCounts == {Big(0, 1), Big(0, 2), Big(65536, 0)}

GoStrings == RunSeqs(StringBytes, StringCounts, MaxRuns)

DataBytes == {0, 7}

\* 1, 2^31 - 1, 2^31, 2^32 - 1 and 2^32 bytes
DataCounts ==
    {Big(0, 1), Big(32767, 65535), Big(32768, 0), Big(65535, 65535),
     Big(65536, 0)}

GoByteSlices == RunSeqs(DataBytes, DataCounts, MaxRuns)

MinInt32 == (-2147483647) - 1

Int32s ==
    {MinInt32, -32769, -32768, -129, -128, -1, 0, 1, 127, 128, 255, 256,
     32767, 32768, 65536, 2147483647}

(***************************************************************************)
(* SpecBridge: round trips through the value bridge.                       *)
(***************************************************************************)
ConvIdle ==
    [op |-> "none", in |-> GoNone, done |-> FALSE, err |-> FALSE,
     panic |-> FALSE, null |-> TRUE, out |-> GoNone]

ConvInput(op, in) == [ConvIdle EXCEPT !.op = op, !.in = in]

StringRoundTrip ==
    /\ conv.op = "string" /\ ~conv.done
    /\ LET r == StringToCFString(conv.in.b)
       IN  IF r.err
           THEN conv' = [conv EXCEPT !.done = TRUE, !.err = TRUE]
           ELSE \E cptr \in CStringPtrOutcomes(r.obj) :
                  conv' = [conv EXCEPT
                             !.done = TRUE,
                             !.null = (r.obj.type = "null"),
                             !.out = GoStringVal(CFStringToString(r.obj, cptr))]
    /\ UNCHANGED <<cfconst, pkgkeys, item, updateItem, lastSet, heap, store, locked, held, last, scen>>

BytesRoundTrip ==
    /\ conv.op = "bytes" /\ ~conv.done
    /\ LET r == BytesToCFData(conv.in.b)
       IN  IF r.err
           THEN conv' = [conv EXCEPT !.done = TRUE, !.err = TRUE]
           ELSE LET d == CFDataToBytes(r.obj)
                IN  conv' = [conv EXCEPT
                               !.done = TRUE,
                               !.null = (r.obj.type = "null"),
                               !.panic = d.panic, !.out = d.out]
    /\ UNCHANGED <<cfconst, pkgkeys, item, updateItem, lastSet, heap, store, locked, held, last, scen>>

Int32RoundTrip ==
    /\ conv.op = "int32" /\ ~conv.done
    /\ LET o == Int32ToCFNumber(conv.in.i)
           d == CFNumberToInterface(o)
       IN  conv' = [conv EXCEPT !.done = TRUE,
                                !.null = (o.type = "null"),
                                !.panic = d.panic, !.out = d.out]
    /\ UNCHANGED <<cfconst, pkgkeys, item, updateItem, lastSet, heap, store, locked, held, last, scen>>

Null == 0

(***************************************************************************)
(* The constant objects of CoreFoundation and Security the package refers  *)
(* to: the boolean singletons and the constant strings.  A constant has a  *)
(* fixed id below FirstDynamicId, is never deallocated, and CFRetain and   *)
(* CFRelease leave it as it is.  Id 0 is the null reference.               *)
(***************************************************************************)
kCFBooleanTrue == Null + 1

kCFBooleanFalse == Null + 2

kSecClass == Null + 3

kSecAttrService == Null + 4

kSecAttrServer == Null + 5

kSecAttrProtocol == Null + 6

kSecAttrAuthenticationType == Null + 7

kSecAttrPort == Null + 8

kSecAttrPath == Null + 9

kSecAttrLabel == Null + 10

kSecAttrAccount == Null + 11

kSecAttrAccessGroup == Null + 12

kSecValueData == Null + 13

kSecAttrDescription == Null + 14

kSecAttrComment == Null + 15

kSecAttrCreationDate == Null + 16

kSecAttrModificationDate == Null + 17

kSecAttrSynchronizable == Null + 18

kSecMatchLimit == Null + 19

kSecReturnAttributes == Null + 20

kSecReturnData == Null + 21

kSecReturnRef == Null + 22

kSecClassGenericPassword == Null + 23

kSecClassInternetPassword == Null + 24

kSecClassCertificate == Null + 25

kSecClassKey == Null + 26

kSecAttrSynchronizableAny == Null + 27

kSecMatchLimitOne == Null + 28

kSecMatchLimitAll == Null + 29

\* a key of the Security framework the package has no name for
kSecValueRef == Null + 30

\* the key and the sentinels of the accessibility of an item
kSecAttrAccessible == Null + 31

kSecAttrAccessibleWhenUnlocked == Null + 32

kSecAttrAccessibleAfterFirstUnlock == Null + 33

kSecAttrAccessibleAlways == Null + 34

kSecAttrAccessibleWhenPasscodeSetThisDeviceOnly == Null + 35

kSecAttrAccessibleWhenUnlockedThisDeviceOnly == Null + 36

kSecAttrAccessibleAfterFirstUnlockThisDeviceOnly == Null + 37

kSecAttrAccessibleAlwaysThisDeviceOnly == Null + 38

NumConstants == kSecAttrAccessibleAlwaysThisDeviceOnly - Null

FirstDynamicId == NumConstants + 1

IsConstant(id) == id > Null /\ id < FirstDynamicId

\* the text of a constant string
ConstText(id) ==
    CASE id = kSecClass -> <<99, 108, 97, 115, 115>>                           \* "class"
      [] id = kSecAttrService -> <<115, 118, 99, 101>>                         \* "svce"
      [] id = kSecAttrServer -> <<115, 114, 118, 114>>                         \* "srvr"
      [] id = kSecAttrProtocol -> <<112, 116, 99, 108>>                        \* "ptcl"
      [] id = kSecAttrAuthenticationType -> <<97, 116, 121, 112>>              \* "atyp"
      [] id = kSecAttrPort -> <<112, 111, 114, 116>>                           \* "port"
      [] id = kSecAttrPath -> <<112, 97, 116, 104>>                            \* "path"
      [] id = kSecAttrLabel -> <<108, 97, 98, 108>>                            \* "labl"
      [] id = kSecAttrAccount -> <<97, 99, 99, 116>>                           \* "acct"
      [] id = kSecAttrAccessGroup -> <<97, 103, 114, 112>>                     \* "agrp"
      [] id = kSecValueData -> <<118, 95, 68, 97, 116, 97>>                    \* "v_Data"
      [] id = kSecAttrDescription -> <<100, 101, 115, 99>>                     \* "desc"
      [] id = kSecAttrComment -> <<105, 99, 109, 116>>                         \* "icmt"
      [] id = kSecAttrCreationDate -> <<99, 100, 97, 116>>                     \* "cdat"
      [] id = kSecAttrModificationDate -> <<109, 100, 97, 116>>                \* "mdat"
      [] id = kSecAttrSynchronizable -> <<115, 121, 110, 99>>                  \* "sync"
      [] id = kSecMatchLimit -> <<109, 95, 76, 105, 109, 105, 116>>            \* "m_Limit"
      [] id = kSecReturnAttributes ->
           <<114, 95, 65, 116, 116, 114, 105, 98, 117, 116, 101, 115>> \* "r_Attributes"
      [] id = kSecReturnData -> <<114, 95, 68, 97, 116, 97>>                   \* "r_Data"
      [] id = kSecReturnRef -> <<114, 95, 82, 101, 102>>                       \* "r_Ref"
      [] id = kSecClassGenericPassword -> <<103, 101, 110, 112>>               \* "genp"
      [] id = kSecClassInternetPassword -> <<105, 110, 101, 116>>              \* "inet"
      [] id = kSecClassCertificate -> <<99, 101, 114, 116>>                    \* "cert"
      [] id = kSecClassKey -> <<107, 101, 121, 115>>                           \* "keys"
      [] id = kSecAttrSynchronizableAny -> <<115, 121, 110, 97>>               \* "syna"
      [] id = kSecMatchLimitOne -> <<109, 95, 76, 105, 109, 105, 116, 79, 110, 101>> \* "m_LimitOne"
      [] id = kSecMatchLimitAll -> <<109, 95, 76, 105, 109, 105, 116, 65, 108, 108>> \* "m_LimitAll"
      [] id = kSecValueRef -> <<118, 95, 82, 101, 102>>                        \* "v_Ref"
      [] id = kSecAttrAccessible -> <<112, 100, 109, 110>> \* "pdmn"
      [] id = kSecAttrAccessibleWhenUnlocked -> <<97, 107>> \* "ak"
      [] id = kSecAttrAccessibleAfterFirstUnlock -> <<99, 107>> \* "ck"
      [] id = kSecAttrAccessibleAlways -> <<100, 107>> \* "dk"
      [] id = kSecAttrAccessibleWhenPasscodeSetThisDeviceOnly -> <<97, 107, 112, 117>> \* "akpu"
      [] id = kSecAttrAccessibleWhenUnlockedThisDeviceOnly -> <<97, 107, 117>> \* "aku"
      [] id = kSecAttrAccessibleAfterFirstUnlockThisDeviceOnly -> <<99, 107, 117>> \* "cku"
      [] id = kSecAttrAccessibleAlwaysThisDeviceOnly -> <<100, 107, 117>> \* "dku"

\* the object at the address of a constant
ConstDef(id) ==
    IF id = kCFBooleanTrue
    THEN [NoObj EXCEPT !.type = "CFBoolean", !.rc = 1, !.num = 1]
    ELSE IF id = kCFBooleanFalse
    THEN [NoObj EXCEPT !.type = "CFBoolean", !.rc = 1, !.num = 0]
    ELSE CFStringCreateWithBytes(Str(ConstText(id)))

\* the constants are in place when the process starts
ConstTable == [id \in (Null + 1)..NumConstants |-> ConstDef(id)]

ConstObj(id) == cfconst[id]

(***************************************************************************)
(* keychain.go: attribute keys, enumerations and the Item setters.         *)
(***************************************************************************)
\* the constant key strings hold no zero byte: CFStringToString yields the
\* same text whether or not CFStringGetCStringPtr returns a pointer
attrKey(ref) ==
    CFStringToString(ConstObj(ref),
                     CHOOSE c \in CStringPtrOutcomes(ConstObj(ref)) : TRUE)

\* the constants the package has a key variable for
KeyConstants ==
    {kSecClass, kSecAttrService, kSecAttrServer, kSecAttrProtocol,
     kSecAttrAuthenticationType, kSecAttrPort, kSecAttrPath,
     kSecAttrLabel, kSecAttrAccount, kSecAttrAccessGroup,
     kSecValueData, kSecAttrDescription, kSecAttrComment,
     kSecAttrCreationDate, kSecAttrModificationDate,
     kSecAttrSynchronizable, kSecMatchLimit, kSecReturnAttributes,
     kSecReturnData, kSecReturnRef, kSecAttrAccessible}

\* the state of the process when it starts: the constant objects exist and
\* the key variables hold the texts of their constants
Boot ==
    /\ cfconst = ConstTable
    /\ pkgkeys = [id \in KeyConstants |-> attrKey(id)]

SecClassKey == pkgkeys[kSecClass]

ServiceKey == pkgkeys[kSecAttrService]

ServerKey == pkgkeys[kSecAttrServer]

ProtocolKey == pkgkeys[kSecAttrProtocol]

AuthenticationTypeKey == pkgkeys[kSecAttrAuthenticationType]

PortKey == pkgkeys[kSecAttrPort]

PathKey == pkgkeys[kSecAttrPath]

LabelKey == pkgkeys[kSecAttrLabel]

AccountKey == pkgkeys[kSecAttrAccount]

AccessGroupKey == pkgkeys[kSecAttrAccessGroup]

DataKey == pkgkeys[kSecValueData]

DescriptionKey == pkgkeys[kSecAttrDescription]

CommentKey == pkgkeys[kSecAttrComment]

CreationDateKey == pkgkeys[kSecAttrCreationDate]

ModificationDateKey == pkgkeys[kSecAttrModificationDate]

SynchronizableKey == pkgkeys[kSecAttrSynchronizable]

MatchLimitKey == pkgkeys[kSecMatchLimit]

ReturnAttributesKey == pkgkeys[kSecReturnAttributes]

ReturnDataKey == pkgkeys[kSecReturnData]

ReturnRefKey == pkgkeys[kSecReturnRef]

SecClassGenericPassword == 1

SecClassInternetPassword == 2

SecClassCertificate == 3

SecClassPairKey == 4

\* a Go map read: the zero value (the null reference) for a missing key
secClassTypeRef(sc) ==
    IF sc = SecClassGenericPassword THEN kSecClassGenericPassword
    ELSE IF sc = SecClassInternetPassword THEN kSecClassInternetPassword
    ELSE IF sc = SecClassCertificate THEN kSecClassCertificate
    ELSE IF sc = SecClassPairKey THEN kSecClassKey
    ELSE Null

SynchronizableDefault == 0

SynchronizableAny == 1

SynchronizableYes == 2

SynchronizableNo == 3

syncTypeRef(sync) ==
    IF sync = SynchronizableAny THEN kSecAttrSynchronizableAny
    ELSE IF sync = SynchronizableYes THEN kCFBooleanTrue
    ELSE IF sync = SynchronizableNo THEN kCFBooleanFalse
    ELSE Null

AccessibleKey == pkgkeys[kSecAttrAccessible]

AccessibleDefault == 0

AccessibleWhenUnlocked == 1

AccessibleAfterFirstUnlock == 2

AccessibleAlways == 3

AccessibleWhenPasscodeSetThisDeviceOnly == 4

AccessibleWhenUnlockedThisDeviceOnly == 5

AccessibleAfterFirstUnlockThisDeviceOnly == 6

AccessibleAccessibleAlwaysThisDeviceOnly == 7

\* each value but the default has its sentinel
accessibleTypeRef(accessible) ==
    CASE accessible = AccessibleWhenUnlocked -> kSecAttrAccessibleWhenUnlocked
      [] accessible = AccessibleAfterFirstUnlock ->
           kSecAttrAccessibleAfterFirstUnlock
      [] accessible = AccessibleAlways -> kSecAttrAccessibleAlways
      [] accessible = AccessibleWhenPasscodeSetThisDeviceOnly ->
           kSecAttrAccessibleWhenPasscodeSetThisDeviceOnly
      [] accessible = AccessibleWhenUnlockedThisDeviceOnly ->
           kSecAttrAccessibleWhenUnlockedThisDeviceOnly
      [] accessible = AccessibleAfterFirstUnlockThisDeviceOnly ->
           kSecAttrAccessibleAfterFirstUnlockThisDeviceOnly
      [] accessible = AccessibleAccessibleAlwaysThisDeviceOnly ->
           kSecAttrAccessibleAlwaysThisDeviceOnly
      [] OTHER -> Null

MatchLimitDefault == 0

MatchLimitOne == 1

MatchLimitAll == 2

matchTypeRef(matchLimit) ==
    IF matchLimit = MatchLimitOne THEN kSecMatchLimitOne
    ELSE IF matchLimit = MatchLimitAll THEN kSecMatchLimitAll
    ELSE Null

\* k.attr[key] = v
MapSet(m, key, v) == [x \in DOMAIN m \cup {key} |-> IF x = key THEN v ELSE m[x]]

\* delete(k.attr, key)
MapDelete(m, key) == [x \in DOMAIN m \ {key} |-> m[x]]

SetSecClass(attr, sc) == MapSet(attr, SecClassKey, GoRefVal(secClassTypeRef(sc)))

SetInt32(attr, key, v) ==
    IF v # 0 THEN MapSet(attr, key, GoInt32Val(v)) ELSE MapDelete(attr, key)

\* a mutant of SetString: the empty string is stored like any other
SetString_KeepEmpty(attr, key, s) == MapSet(attr, key, GoStringVal(s))

SetString(attr, key, s) ==
    IF s # <<>> THEN MapSet(attr, key, GoStringVal(s)) ELSE MapDelete(attr, key)

SetService(attr, s) == SetString(attr, ServiceKey, s)

SetServer(attr, s) == SetString(attr, ServerKey, s)

SetProtocol(attr, s) == SetString(attr, ProtocolKey, s)

SetAuthenticationType(attr, s) == SetString(attr, AuthenticationTypeKey, s)

SetPort(attr, v) == SetInt32(attr, PortKey, v)

SetPath(attr, s) == SetString(attr, PathKey, s)

SetAccount(attr, a) == SetString(attr, AccountKey, a)

SetLabel(attr, l) == SetString(attr, LabelKey, l)

SetDescription(attr, s) == SetString(attr, DescriptionKey, s)

SetComment(attr, s) == SetString(attr, CommentKey, s)

\* a mutant of SetData: the bytes are not put into the map
SetData_Drop(attr, b) == MapDelete(attr, DataKey)

\* b: a native []byte value, nil or not
SetData(attr, b) ==
    IF ~b.nil THEN MapSet(attr, DataKey, b) ELSE MapDelete(attr, DataKey)

SetAccessGroup(attr, ag) == SetString(attr, AccessGroupKey, ag)

\* a mutant of SetSynchronizable: the default is stored like any other value
SetSynchronizable_StoreDefault(attr, sync) ==
    MapSet(attr, SynchronizableKey, GoRefVal(syncTypeRef(sync)))

SetSynchronizable(attr, sync) ==
    IF sync # SynchronizableDefault
    THEN MapSet(attr, SynchronizableKey, GoRefVal(syncTypeRef(sync)))
    ELSE MapDelete(attr, SynchronizableKey)

SetAccessible(attr, accessible) ==
    IF accessible # AccessibleDefault
    THEN MapSet(attr, AccessibleKey, GoRefVal(accessibleTypeRef(accessible)))
    ELSE MapDelete(attr, AccessibleKey)

SetMatchLimit(attr, matchLimit) ==
    IF matchLimit # MatchLimitDefault
    THEN MapSet(attr, MatchLimitKey, GoRefVal(matchTypeRef(matchLimit)))
    ELSE MapDelete(attr, MatchLimitKey)

SetReturnAttributes(attr, b) == MapSet(attr, ReturnAttributesKey, GoBoolVal(b))

SetReturnData(attr, b) == MapSet(attr, ReturnDataKey, GoBoolVal(b))

SetReturnRef(attr, b) == MapSet(attr, ReturnRefKey, GoBoolVal(b))

NewItem == <<>>

NewGenericPassword(service, account, label, data, accessGroup) ==
    SetAccessGroup(
      SetData(
        SetLabel(
          SetAccount(
            SetService(SetSecClass(NewItem, SecClassGenericPassword), service),
            account),
          label),
        data),
      accessGroup)

(***************************************************************************)
(* The reference-counted heap.  A call works on a context                  *)
(*   objs      id -> object, the objects alive (rc > 0) and those this     *)
(*             call has seen die (rc = 0)                                  *)
(*   created   the ids of the objects created during the call              *)
(*   released  the references the package passed to Release, in order      *)
(*   fault     CFRetain or CFRelease of the null reference or of a dead    *)
(*             object: the process crashes or corrupts memory              *)
(***************************************************************************)
CallContext(objs) ==
    [objs |-> objs, created |-> {}, released |-> <<>>, fault |-> FALSE]

IsLive(h, id) == id \in DOMAIN h.objs /\ h.objs[id].rc > 0

\* the object a reference points to
Deref(h, id) ==
    IF IsConstant(id) THEN ConstObj(id)
    ELSE IF id \in DOMAIN h.objs THEN h.objs[id]
    ELSE NoObj

SetMax(S) == IF S = {} THEN 0 ELSE CHOOSE x \in S : \A y \in S : y <= x

\* the allocator hands out the lowest address that is free; the address of
\* an object that died during the call is not reused before the call ends
FreshId(h) ==
    LET top == SetMax(DOMAIN h.objs \cup {FirstDynamicId - 1}) + 1
    IN  CHOOSE id \in FirstDynamicId..top :
            /\ id \notin DOMAIN h.objs
            /\ \A x \in FirstDynamicId..(id - 1) : x \in DOMAIN h.objs

\* a new object with reference count 1 (no object for a NULL result)
Alloc(h, obj) ==
    LET at(id) ==
            [h |-> [h EXCEPT !.objs = MapSet(@, id, [obj EXCEPT !.rc = 1]),
                             !.created = @ \cup {id}],
             id |-> id]
    IN  IF obj.type = "null" THEN [h |-> h, id |-> Null] ELSE at(FreshId(h))

\* a mutant of CFRetain: a collection made without the retain callback
CFRetain_None(h, id) == h

CFRetain(h, id) ==
    IF IsConstant(id) THEN h
    ELSE IF ~IsLive(h, id) THEN [h EXCEPT !.fault = TRUE]
    ELSE [h EXCEPT !.objs[id].rc = @ + 1]

\* CFRelease; an object whose count reaches 0 releases what it contains
RECURSIVE CFRelease(_, _)
RECURSIVE CFReleaseEach(_, _)
CFRelease(h, id) ==
    IF IsConstant(id) THEN h
    ELSE IF ~IsLive(h, id) THEN [h EXCEPT !.fault = TRUE]
    ELSE IF h.objs[id].rc > 1 THEN [h EXCEPT !.objs[id].rc = @ - 1]
    ELSE CFReleaseEach([h EXCEPT !.objs[id].rc = 0],
                       h.objs[id].keys \o h.objs[id].vals)

CFReleaseEach(h, ids) ==
    IF ids = <<>> THEN h
    ELSE CFReleaseEach(CFRelease(h, Head(ids)), Tail(ids))

RECURSIVE CFRetainEach(_, _)
CFRetainEach(h, ids) ==
    IF ids = <<>> THEN h
    ELSE CFRetainEach(CFRetain(h, Head(ids)), Tail(ids))

\* a mutant of Release: the reference is forgotten, not released
Release_Skip(h, ref) == [h EXCEPT !.released = Append(@, ref)]

\* Release(ref)
Release(h, ref) == CFRelease([h EXCEPT !.released = Append(@, ref)], ref)

\* the deferred calls of a function run last in, first out
RECURSIVE RunDefers(_, _)
RunDefers(h, defers) ==
    IF defers = <<>> THEN h
    ELSE RunDefers(Release(h, defers[Len(defers)]), SubSeq(defers, 1, Len(defers) - 1))

\* the objects alive when a call has returned
LiveObjs(h) == [id \in {x \in DOMAIN h.objs : h.objs[x].rc > 0} |-> h.objs[id]]

\* m: the Go map, as the sequence of its <<key ref, value ref>> pairs.
\* CFDictionaryCreate with the CFType callbacks retains every key and value.
MapToCFDictionary(h, m) ==
    LET keys == [i \in 1..Len(m) |-> m[i][1]]
        vals == [i \in 1..Len(m) |-> m[i][2]]
        created(a) ==
            [h |-> CFRetainEach(a.h, keys \o vals), dict |-> a.id,
             err |-> FALSE]
    IN  created(Alloc(h, [NoObj EXCEPT !.type = "CFDictionary",
                                       !.keys = keys, !.vals = vals]))

\* the loop of ArrayToCFArray from the index i on.  values: the slice made
\* with length 0 and capacity len(a); an assignment to values[i] beyond
\* its length is a run-time panic
RECURSIVE ArrayValues(_, _, _)
ArrayValues(a, i, values) ==
    IF i > Len(a) THEN [panic |-> FALSE, null |-> FALSE, values |-> values]
    ELSE IF a[i] = Null
    THEN [panic |-> FALSE, null |-> TRUE, values |-> values]
    ELSE IF i > Len(values)
    THEN [panic |-> TRUE, null |-> FALSE, values |-> values]
    ELSE ArrayValues(a, i + 1, [values EXCEPT ![i] = a[i]])

\* ArrayToCFArray(a); CFArrayCreate with the CFType callbacks retains every
\* value
ArrayToCFArray(h, a) ==
    LET created(vals, n) ==
            [h |-> CFRetainEach(n.h, vals), ref |-> n.id, panic |-> FALSE]
        looped(l) ==
            IF l.panic THEN [h |-> h, ref |-> Null, panic |-> TRUE]
            ELSE IF l.null THEN [h |-> h, ref |-> Null, panic |-> FALSE]
            ELSE created(l.values,
                         Alloc(h, [NoObj EXCEPT !.type = "CFArray",
                                                !.vals = l.values]))
    IN  looped(ArrayValues(a, 1, <<>>))

\* CFArrayToArray
CFArrayToArray(h, a) == Deref(h, a).vals

\* a list of references, as a native value
GoRefsVal(a) == GoVal("refs", a, 0)

\* ArrayToCFArray(a), then CFArrayToArray and Release of an array returned
ArrayRoundTrip ==
    /\ conv.op = "array" /\ ~conv.done
    /\ \E r \in {ArrayToCFArray(CallContext(heap), conv.in.b)} :
         IF r.panic
         THEN /\ conv' = [conv EXCEPT !.done = TRUE, !.panic = TRUE]
              /\ heap' = heap
         ELSE IF r.ref = Null
         THEN /\ conv' = [conv EXCEPT !.done = TRUE]
              /\ heap' = heap
         ELSE /\ conv' = [conv EXCEPT
                            !.done = TRUE, !.null = FALSE,
                            !.out = GoRefsVal(CFArrayToArray(r.h, r.ref))]
              /\ heap' = LiveObjs(Release(r.h, r.ref))
    /\ UNCHANGED <<cfconst, pkgkeys, item, updateItem, lastSet, store, locked, held,
                   last, scen>>

\* the lists of references the array bridge is called with: of constants
\* and the null reference
RefLists(n) ==
    UNION {[1..k -> {Null, kCFBooleanTrue, kSecClass}] : k \in 0..n}

\* the orders in which a Go map of the given keys may be iterated
RECURSIVE Perms(_)
Perms(S) ==
    IF S = {} THEN {<<>>}
    ELSE UNION { { <<x>> \o p : p \in Perms(S \ {x}) } : x \in S }

\* val.Convert() of a Convertable: an error, or a new object owned by the
\* caller
ConvertableConvert(val) ==
    IF val.i = 0 THEN [err |-> TRUE, obj |-> NoObj]
    ELSE [err |-> FALSE, obj |-> [NoObj EXCEPT !.type = "SecAccess", !.rc = 1]]

\* the switch on the dynamic type of one value: the reference put into the
\* map and, in made, the reference whose release is deferred
ConvertValue(h, val) ==
    LET none == [h |-> h, err |-> FALSE, valueRef |-> Null, made |-> <<>>]
        allocated(a) ==
            [h |-> a.h, err |-> FALSE, valueRef |-> a.id, made |-> <<a.id>>]
        fresh(r) ==
            IF r.err THEN [none EXCEPT !.err = TRUE]
            ELSE allocated(Alloc(h, r.obj))
    IN  IF val.t = "ref" THEN [none EXCEPT !.valueRef = val.i]
        ELSE IF val.t = "bool"
        THEN [none EXCEPT !.valueRef = IF val.i = 1 THEN kCFBooleanTrue
                                       ELSE kCFBooleanFalse]
        ELSE fresh(CASE val.t = "int32" ->
                          [err |-> FALSE, obj |-> Int32ToCFNumber(val.i)]
                     [] val.t = "bytes" -> BytesToCFData(val.b)
                     [] val.t = "string" -> StringToCFString(val.b)
                     [] val.t = "convertable" -> ConvertableConvert(val)
                     [] OTHER -> [err |-> TRUE, obj |-> NoObj])

\* the loop of ConvertMapToCFDictionary over the entries in the given
\* order; st: the map m built so far, the deferred releases, the error
RECURSIVE ConvertEntries(_, _, _)
ConvertEntries(st, attr, order) ==
    LET failed(v) ==
            [st EXCEPT !.h = v.h, !.defers = @ \o v.made, !.err = TRUE]
        entered(v, a) ==
            [h |-> a.h, m |-> Append(st.m, <<a.id, v.valueRef>>),
             defers |-> st.defers \o v.made \o <<a.id>>, err |-> FALSE]
        keyed(v, k) ==
            IF k.err THEN failed(v) ELSE entered(v, Alloc(v.h, k.obj))
        valued(v) ==
            IF v.err THEN failed(v)
            ELSE keyed(v, StringToCFString(Head(order)))
    IN  IF order = <<>> \/ st.err THEN st
        ELSE ConvertEntries(valued(ConvertValue(st.h, attr[Head(order)])),
                            attr, Tail(order))

\* a mutant of ConvertMapToCFDictionary: a failed build returns at once,
\* without the deferred releases
ConvertMapToCFDictionary_LeakOnError(h, attr, order) ==
    LET built(d, defers) ==
            [h |-> RunDefers(d.h, defers), dict |-> d.dict, err |-> FALSE]
        return(st) ==
            IF st.err THEN [h |-> st.h, dict |-> Null, err |-> TRUE]
            ELSE built(MapToCFDictionary(st.h, st.m), st.defers)
    IN  return(ConvertEntries([h |-> h, m |-> <<>>, defers |-> <<>>,
                               err |-> FALSE], attr, order))

\* order: the order in which the map is iterated, a permutation of its keys
ConvertMapToCFDictionary(h, attr, order) ==
    LET built(d, defers) ==
            [h |-> RunDefers(d.h, defers), dict |-> d.dict, err |-> FALSE]
        return(st) ==
            IF st.err
            THEN [h |-> RunDefers(st.h, st.defers), dict |-> Null, err |-> TRUE]
            ELSE built(MapToCFDictionary(st.h, st.m), st.defers)
    IN  return(ConvertEntries([h |-> h, m |-> <<>>, defers |-> <<>>,
                               err |-> FALSE], attr, order))

(***************************************************************************)
(* The secure-item store (the Security framework, an external service).    *)
(* A record is [class, svce, acct, labl, agrp, data]: the class constant,  *)
(* the characters of four text attributes ("" for an attribute not set)    *)
(* and the bytes of the secret.  Two records never agree on class,         *)
(* service, account and access group.                                      *)
(***************************************************************************)
errSecSuccess == 0

errSecParam == -50

errSecDuplicateItem == -25299

errSecItemNotFound == -25300

errSecInteractionNotAllowed == -25308

TextFields == {"svce", "acct", "labl", "agrp"}

FieldKey(f) ==
    CASE f = "svce" -> kSecAttrService
      [] f = "acct" -> kSecAttrAccount
      [] f = "labl" -> kSecAttrLabel
      [] f = "agrp" -> kSecAttrAccessGroup

\* the value reference a dictionary holds for the key with the text of the
\* constant keyConst (Null: no such key)
DictLookup(h, d, keyConst) ==
    LET found(o, idx) ==
            IF idx = {} THEN Null ELSE o.vals[CHOOSE i \in idx : TRUE]
        among(o) ==
            found(o, {i \in 1..Len(o.keys) :
                        /\ Deref(h, o.keys[i]).type = "CFString"
                        /\ Deref(h, o.keys[i]).bytes = ConstObj(keyConst).bytes})
    IN  among(Deref(h, d))

DictText(h, d, keyConst) ==
    LET text(v) == IF v = Null THEN <<>> ELSE Deref(h, v).bytes
    IN  text(DictLookup(h, d, keyConst))

SamePrimaryKey(r1, r2) ==
    /\ r1.class = r2.class /\ r1.svce = r2.svce
    /\ r1.acct = r2.acct /\ r1.agrp = r2.agrp

\* the record matches every attribute the query dictionary names
Matches(rec, h, d) ==
    LET same(f, v) == v = Null \/ Deref(h, v).bytes = rec[f]
    IN  /\ rec.class = DictLookup(h, d, kSecClass)
        /\ \A f \in TextFields : same(f, DictLookup(h, d, FieldKey(f)))

\* SecItemAdd(attributes, NULL)
SecItemAdd(st, lk, h, d) ==
    LET added(rec) ==
            IF rec.class = Null THEN [status |-> errSecParam, store |-> st]
            ELSE IF \E r \in st : SamePrimaryKey(r, rec)
            THEN [status |-> errSecDuplicateItem, store |-> st]
            ELSE [status |-> errSecSuccess, store |-> st \cup {rec}]
    IN  IF lk THEN [status |-> errSecInteractionNotAllowed, store |-> st]
        ELSE added([class |-> DictLookup(h, d, kSecClass),
                    svce |-> DictText(h, d, kSecAttrService),
                    acct |-> DictText(h, d, kSecAttrAccount),
                    labl |-> DictText(h, d, kSecAttrLabel),
                    agrp |-> DictText(h, d, kSecAttrAccessGroup),
                    data |-> DictText(h, d, kSecValueData)])

\* the record with the attributes the dictionary names put in their place
Updated(rec, h, d) ==
    LET new(f, v) == IF v = Null THEN rec[f] ELSE Deref(h, v).bytes
    IN  [class |-> rec.class,
         svce |-> new("svce", DictLookup(h, d, kSecAttrService)),
         acct |-> new("acct", DictLookup(h, d, kSecAttrAccount)),
         labl |-> new("labl", DictLookup(h, d, kSecAttrLabel)),
         agrp |-> new("agrp", DictLookup(h, d, kSecAttrAccessGroup)),
         data |-> new("data", DictLookup(h, d, kSecValueData))]

\* SecItemUpdate(query, attributesToUpdate)
SecItemUpdate(st, lk, h, q, u) ==
    LET replaced(after) ==
            IF \/ Cardinality(after) # Cardinality(st)
               \/ \E r1, r2 \in after : r1 # r2 /\ SamePrimaryKey(r1, r2)
            THEN [status |-> errSecDuplicateItem, store |-> st]
            ELSE [status |-> errSecSuccess, store |-> after]
        matched(hit) ==
            IF hit = {} THEN [status |-> errSecItemNotFound, store |-> st]
            ELSE replaced((st \ hit) \cup {Updated(r, h, u) : r \in hit})
    IN  IF lk THEN [status |-> errSecInteractionNotAllowed, store |-> st]
        ELSE IF DictLookup(h, q, kSecClass) = Null
        THEN [status |-> errSecParam, store |-> st]
        ELSE matched({r \in st : Matches(r, h, q)})

\* SecItemDelete(query)
SecItemDelete(st, lk, h, q) ==
    LET matched(hit) ==
            IF hit = {} THEN [status |-> errSecItemNotFound, store |-> st]
            ELSE [status |-> errSecSuccess, store |-> st \ hit]
    IN  IF lk THEN [status |-> errSecInteractionNotAllowed, store |-> st]
        ELSE IF DictLookup(h, q, kSecClass) = Null
        THEN [status |-> errSecParam, store |-> st]
        ELSE matched({r \in st : Matches(r, h, q)})

RECURSIVE AllocSeq(_, _)
AllocSeq(h, os) ==
    LET joined(a, r) == [h |-> r.h, ids |-> <<a.id>> \o r.ids]
        rest(a) == joined(a, AllocSeq(a.h, Tail(os)))
    IN  IF os = <<>> THEN [h |-> h, ids |-> <<>>]
        ELSE rest(Alloc(h, Head(os)))

ItemRefObj == [NoObj EXCEPT !.type = "SecKeychainItem", !.rc = 1]

\* what the store returns for one record: the data, a reference to the
\* item, or (for the attributes, or for more than one return flag) a
\* dictionary that owns its values
MakeElement(h, rec, wantAttrs, wantData, wantRef) ==
    LET present == SelectSeq(<<"svce", "acct", "labl", "agrp">>,
                             LAMBDA f : wantAttrs /\ rec[f] # <<>>)
        dict(made) ==
            Alloc(made.h,
                  [NoObj EXCEPT
                     !.type = "CFDictionary",
                     !.keys = (IF wantAttrs THEN <<kSecClass>> ELSE <<>>)
                                \o [i \in 1..Len(present) |->
                                       FieldKey(present[i])]
                                \o (IF wantData THEN <<kSecValueData>>
                                    ELSE <<>>)
                                \o (IF wantRef THEN <<kSecValueRef>> ELSE <<>>),
                     !.vals = (IF wantAttrs THEN <<rec.class>> ELSE <<>>)
                                \o made.ids])
    IN  IF wantData /\ ~wantAttrs /\ ~wantRef
        THEN Alloc(h, CFDataCreate(rec.data))
        ELSE IF wantRef /\ ~wantAttrs /\ ~wantData THEN Alloc(h, ItemRefObj)
        ELSE dict(AllocSeq(h,
                    [i \in 1..Len(present) |-> CFStringOf(rec[present[i]])]
                       \o (IF wantData THEN <<CFDataCreate(rec.data)>>
                           ELSE <<>>)
                       \o (IF wantRef THEN <<ItemRefObj>> ELSE <<>>)))

RECURSIVE MakeElements(_, _, _, _, _)
MakeElements(h, recs, wantAttrs, wantData, wantRef) ==
    LET joined(a, r) == [h |-> r.h, ids |-> <<a.id>> \o r.ids]
        rest(a) ==
            joined(a, MakeElements(a.h, Tail(recs), wantAttrs, wantData,
                                   wantRef))
    IN  IF recs = <<>> THEN [h |-> h, ids |-> <<>>]
        ELSE rest(MakeElement(h, Head(recs), wantAttrs, wantData, wantRef))

\* SecItemCopyMatching(query, &result); pick: the records in the order in
\* which the store comes upon them
SecItemCopyMatching(st, lk, h, q, pick) ==
    LET none(status) == [status |-> status, h |-> h, ref |-> Null]
        result(a) == [status |-> errSecSuccess, h |-> a.h, ref |-> a.id]
        array(es) ==
            result(Alloc(es.h, [NoObj EXCEPT !.type = "CFArray",
                                             !.vals = es.ids]))
        copied(hit, wantAttrs, wantData, wantRef, all) ==
            IF hit = <<>> THEN none(errSecItemNotFound)
            ELSE IF ~wantAttrs /\ ~wantData /\ ~wantRef THEN none(errSecSuccess)
            ELSE IF ~all
            THEN result(MakeElement(h, Head(hit), wantAttrs, wantData, wantRef))
            ELSE array(MakeElements(h, hit, wantAttrs, wantData, wantRef))
    IN  IF lk THEN none(errSecInteractionNotAllowed)
        ELSE IF DictLookup(h, q, kSecClass) = Null THEN none(errSecParam)
        ELSE copied(SelectSeq(pick, LAMBDA r : Matches(r, h, q)),
                    DictLookup(h, q, kSecReturnAttributes) = kCFBooleanTrue,
                    DictLookup(h, q, kSecReturnData) = kCFBooleanTrue,
                    DictLookup(h, q, kSecReturnRef) = kCFBooleanTrue,
                    DictLookup(h, q, kSecMatchLimit) = kSecMatchLimitAll)

\* a dictionary with an account and, with ntype, a port of that number type
MakeRecord(h, ntype) ==
    LET dict(made) ==
            Alloc(made.h,
                  [NoObj EXCEPT !.type = "CFDictionary",
                                !.keys = <<kSecAttrAccount>>
                                           \o (IF ntype = "" THEN <<>>
                                               ELSE <<kSecAttrPort>>),
                                !.vals = made.ids])
    IN  dict(AllocSeq(h, <<CFStringOf(Str(<<97>>))>>
                           \o (IF ntype = "" THEN <<>>
                               ELSE <<CFNumberCreate(ntype, 80)>>)))

MakeObject(h, kind) ==
    CASE kind = "string" -> Alloc(h, CFStringOf(Str(<<97>>)))
      [] kind = "number" -> Alloc(h, CFNumberCreate("SInt32", 80))
      [] kind = "itemref" -> Alloc(h, ItemRefObj)
      [] kind = "data" -> Alloc(h, CFDataCreate(Str(<<1>>)))
      [] kind = "dict" -> MakeRecord(h, "")
      [] kind = "dictPort32" -> MakeRecord(h, "SInt32")
      [] kind = "dictPort64" -> MakeRecord(h, "SInt64")

RECURSIVE MakeObjects(_, _)
MakeObjects(h, kinds) ==
    LET joined(a, r) == [h |-> r.h, ids |-> <<a.id>> \o r.ids]
        rest(a) == joined(a, MakeObjects(a.h, Tail(kinds)))
    IN  IF kinds = <<>> THEN [h |-> h, ids |-> <<>>]
        ELSE rest(MakeObject(h, Head(kinds)))

\* SecItemCopyMatching of a store the package knows nothing about: success
\* and a response of the given shape
AnyResponse(h, shape) ==
    LET result(a) == [status |-> errSecSuccess, h |-> a.h, ref |-> a.id]
        array(es) ==
            result(Alloc(es.h, [NoObj EXCEPT !.type = "CFArray",
                                             !.vals = es.ids]))
    IN  IF shape.top = "array" THEN array(MakeObjects(h, shape.elems))
        ELSE result(MakeObject(h, shape.top))

\* who answers a query: the store of records, locked or not, coming upon
\* its records in the order pick, or the unknown store with a response of
\* the given shape
FromStore(lk, pick) ==
    [any |-> FALSE, lk |-> lk, pick |-> pick, shape |-> <<>>]

FromAny(shape) == [any |-> TRUE, lk |-> FALSE, pick |-> <<>>, shape |-> shape]

\* the answer to C.SecItemCopyMatching(cfDict, &resultsRef), as
\* [status, h, ref]
CopyMatching(st, from, h, d) ==
    IF from.any THEN AnyResponse(h, from.shape)
    ELSE SecItemCopyMatching(st, from.lk, h, d, from.pick)

(***************************************************************************)
(* SpecItem: the setters called in any order on one Item.  lastSet keeps,  *)
(* per key, the argument of the most recent call.                          *)
(***************************************************************************)
\* "", "a"
ItemStrings == {<<>>, Str(<<97>>)}

ItemInt32s == {0, 80}

\* nil, the empty slice, one byte
ItemDatas == {GoNilBytes, GoBytesVal(<<>>), GoBytesVal(Str(<<1>>))}

\* the keys SetString and SetInt32 are called with directly ("x": a key
\* outside the vocabulary)
GenericKeys == {ServiceKey, PortKey, DataKey, Str(<<120>>)}

SecClassArgs == 0 .. SecClassPairKey + 1

SynchronizableArgs == SynchronizableDefault .. SynchronizableNo + 1

AccessibleArgs == AccessibleDefault .. AccessibleAccessibleAlwaysThisDeviceOnly + 1

MatchLimitArgs == MatchLimitDefault .. MatchLimitAll + 1

GoEnumVal(t, n) == GoVal(t, <<>>, n)

Touch(key, arg, newAttr) ==
    /\ key \in DOMAIN lastSet \/ Cardinality(DOMAIN lastSet) < MaxTouched
    /\ item' = newAttr
    /\ lastSet' = MapSet(lastSet, key, arg)
    /\ UNCHANGED <<cfconst, pkgkeys, conv, updateItem, heap, store, locked, held,
                   last, scen>>

CallSetString ==
    \E key \in GenericKeys, s \in ItemStrings :
        Touch(key, GoStringVal(s), SetString(item, key, s))

CallSetInt32 ==
    \E key \in GenericKeys, v \in ItemInt32s :
        Touch(key, GoInt32Val(v), SetInt32(item, key, v))

CallSetData == \E b \in ItemDatas : Touch(DataKey, b, SetData(item, b))

CallSetService ==
    \E s \in ItemStrings : Touch(ServiceKey, GoStringVal(s), SetService(item, s))

CallSetServer ==
    \E s \in ItemStrings : Touch(ServerKey, GoStringVal(s), SetServer(item, s))

CallSetProtocol ==
    \E s \in ItemStrings : Touch(ProtocolKey, GoStringVal(s), SetProtocol(item, s))

CallSetAuthenticationType ==
    \E s \in ItemStrings :
        Touch(AuthenticationTypeKey, GoStringVal(s), SetAuthenticationType(item, s))

CallSetPort == \E v \in ItemInt32s : Touch(PortKey, GoInt32Val(v), SetPort(item, v))

CallSetPath ==
    \E s \in ItemStrings : Touch(PathKey, GoStringVal(s), SetPath(item, s))

CallSetAccount ==
    \E s \in ItemStrings : Touch(AccountKey, GoStringVal(s), SetAccount(item, s))

CallSetLabel ==
    \E s \in ItemStrings : Touch(LabelKey, GoStringVal(s), SetLabel(item, s))

CallSetDescription ==
    \E s \in ItemStrings :
        Touch(DescriptionKey, GoStringVal(s), SetDescription(item, s))

CallSetComment ==
    \E s \in ItemStrings : Touch(CommentKey, GoStringVal(s), SetComment(item, s))

CallSetAccessGroup ==
    \E s \in ItemStrings :
        Touch(AccessGroupKey, GoStringVal(s), SetAccessGroup(item, s))

CallSetSecClass ==
    \E sc \in SecClassArgs :
        Touch(SecClassKey, GoEnumVal("SecClass", sc), SetSecClass(item, sc))

CallSetSynchronizable ==
    \E sync \in SynchronizableArgs :
        Touch(SynchronizableKey, GoEnumVal("Synchronizable", sync),
              SetSynchronizable(item, sync))

CallSetAccessible ==
    \E accessible \in AccessibleArgs :
        Touch(AccessibleKey, GoEnumVal("Accessible", accessible),
              SetAccessible(item, accessible))

CallSetMatchLimit ==
    \E ml \in MatchLimitArgs :
        Touch(MatchLimitKey, GoEnumVal("MatchLimit", ml), SetMatchLimit(item, ml))

CallSetReturnAttributes ==
    \E b \in BOOLEAN :
        Touch(ReturnAttributesKey, GoBoolVal(b), SetReturnAttributes(item, b))

CallSetReturnData ==
    \E b \in BOOLEAN : Touch(ReturnDataKey, GoBoolVal(b), SetReturnData(item, b))

CallSetReturnRef ==
    \E b \in BOOLEAN : Touch(ReturnRefKey, GoBoolVal(b), SetReturnRef(item, b))

\* values of the variables a specification does not use
NoItem == <<>>

NoLast ==
    [op |-> "none", err |-> "", status |-> 0, panic |-> FALSE, ref |-> 0,
     results |-> <<>>, nilResults |-> TRUE, data |-> GoNone,
     accounts |-> <<>>, shape |-> <<>>,
     response |-> [type |-> "null", bytes |-> <<>>, entries |-> <<>>,
                   elems |-> <<>>],
     verbCalls |-> 0, reported |-> 0,
     fault |-> FALSE, released |-> <<>>, created |-> {}]

NoScen == [step |-> 0, sel |-> <<>>, d |-> GoNone]

\* the inputs of the round trips
ConvInputs ==
    {ConvInput("string", GoStringVal(s)) : s \in GoStrings}
        \cup {ConvInput("bytes", GoBytesVal(b)) : b \in GoByteSlices}
        \cup {ConvInput("bytes", GoNilBytes)}
        \cup {ConvInput("int32", GoInt32Val(n)) : n \in Int32s}
        \cup {ConvInput("array", GoRefsVal(a)) : a \in RefLists(MaxElems)}

InitBridge ==
    /\ Boot
    /\ conv \in ConvInputs
    /\ item = NoItem
    /\ updateItem = NoItem
    /\ lastSet = NoItem
    /\ heap = <<>>
    /\ store = {}
    /\ locked = FALSE
    /\ held = <<>>
    /\ last = NoLast
    /\ scen = NoScen

NextBridge ==
    StringRoundTrip \/ BytesRoundTrip \/ Int32RoundTrip \/ ArrayRoundTrip

SpecBridge == InitBridge /\ [][NextBridge]_vars

(***************************************************************************)
(* C8: for every valid UTF-8 string s within the 32-bit length limit,      *)
(* CFStringToString(StringToCFString(s)) equals s byte for byte (the empty *)
(* string and strings with a zero byte included); StringToCFString on a    *)
(* string that is no valid UTF-8 or is longer than a 32-bit length returns *)
(* an error and no reference.                                              *)
(***************************************************************************)
C8_StringRoundTrip ==
    (conv.op = "string" /\ conv.done) =>
        IF ValidString(conv.in.b) /\ ~BigGt(GoLen(conv.in.b), MaxUint32)
        THEN ~conv.err /\ ~conv.null /\ conv.out.b = conv.in.b
        ELSE conv.err /\ conv.null

(***************************************************************************)
(* C9: for every byte sequence b within the 32-bit length limit, the       *)
(* zero-length one included, BytesToCFData(b) returns a non-null buffer    *)
(* and CFDataToBytes of it yields the length and content of b.             *)
(***************************************************************************)
C9_BytesRoundTrip ==
    (conv.op = "bytes" /\ conv.done /\ ~BigGt(GoLen(conv.in.b), MaxUint32)) =>
        /\ ~conv.err /\ ~conv.null /\ ~conv.panic
        /\ conv.out.t = "bytes"
        /\ GoLen(conv.out.b) = GoLen(conv.in.b)
        /\ conv.out.b = conv.in.b

(***************************************************************************)
(* C10: for every int32 n, CFNumberToInterface(Int32ToCFNumber(n)) is a    *)
(* native int32 equal to n: a number encoded as 32-bit signed decodes as   *)
(* int32 and never as another width.                                       *)
(***************************************************************************)
C10_Int32RoundTrip ==
    (conv.op = "int32" /\ conv.done) =>
        /\ ~conv.null /\ ~conv.panic
        /\ conv.out.t = "int32"
        /\ conv.out.i = conv.in.i

C10_Witness ==
    /\ conv.op = "int32" /\ conv.done
    /\ conv.in.i = MinInt32
    /\ conv.out = GoInt32Val(MinInt32)

(***************************************************************************)
(* C18: ArrayToCFArray does not panic; for a list of n >= 1 references,    *)
(* none of them null, it returns a non-null array of which CFArrayToArray  *)
(* yields the list again; for a list with a null element it returns the    *)
(* null reference; for the empty list it returns an empty array.           *)
(***************************************************************************)
C18_ArrayRoundTrip ==
    (conv.op = "array" /\ conv.done) =>
        /\ ~conv.panic
        /\ IF \E i \in 1..Len(conv.in.b) : conv.in.b[i] = Null
           THEN conv.null
           ELSE ~conv.null /\ conv.out = conv.in


(***************************************************************************)
(* SpecBuild: ConvertMapToCFDictionary on one attribute map, iterated in   *)
(* any order.  The caller owns one object of its own (PreExisting) and     *)
(* keeps the dictionaries it gets until it releases them.                  *)
(***************************************************************************)
PreExisting == FirstDynamicId

InitialObjs ==
    MapSet(<<>>, PreExisting, [NoObj EXCEPT !.type = "SecAccess", !.rc = 1])

\* "svce", "v_Data", and a key that is no UTF-8
BuildKeys == {ServiceKey, DataKey, Str(<<255>>)}

BuildValues ==
    {GoStringVal(Str(<<97>>)),                       \* "a"
     GoStringVal(Str(<<195>>)),                      \* no UTF-8
     GoStringVal(<<Run(97, Big(65536, 0))>>),        \* 2^32 bytes
     GoBytesVal(Str(<<1>>)),
     GoBytesVal(<<Run(0, Big(65536, 0))>>),          \* 2^32 bytes
     GoInt32Val(80),
     GoBoolVal(TRUE),
     GoRefVal(kSecClassGenericPassword),
     GoRefVal(PreExisting),
     GoRefVal(Null),
     GoVal("convertable", <<>>, 1),                  \* Convert succeeds
     GoVal("convertable", <<>>, 0),                  \* Convert fails
     GoVal("int", <<>>, 7)}                          \* an unsupported type

RECURSIVE MapsOver(_, _, _)
MapsOver(K, V, n) ==
    IF n = 0 THEN {<<>>}
    ELSE LET S == MapsOver(K, V, n - 1)
         IN  S \cup UNION { UNION { { MapSet(m, k, v) : v \in V }
                                    : k \in K \ DOMAIN m } : m \in S }

BuildMaps == MapsOver(BuildKeys, BuildValues, MaxEntries)

InitBuild ==
    /\ Boot
    /\ conv = ConvIdle
    /\ item \in BuildMaps
    /\ updateItem = NoItem
    /\ lastSet = NoItem
    /\ heap = InitialObjs
    /\ store = {}
    /\ locked = FALSE
    /\ held = <<>>
    /\ last = NoLast
    /\ scen = NoScen

\* cfDict, err := ConvertMapToCFDictionary(item.attr)
Build ==
    /\ Len(held) < MaxBuilt
    /\ \E order \in Perms(DOMAIN item) :
         \E r \in {ConvertMapToCFDictionary(CallContext(heap), item, order)} :
             /\ heap' = LiveObjs(r.h)
             /\ held' = IF r.dict = Null THEN held ELSE Append(held, r.dict)
             /\ last' = [NoLast EXCEPT !.op = "build",
                                       !.err = IF r.err THEN "convert" ELSE "",
                                       !.ref = r.dict,
                                       !.fault = r.h.fault,
                                       !.released = r.h.released,
                                       !.created = r.h.created]
    /\ UNCHANGED <<cfconst, pkgkeys, conv, item, updateItem, lastSet, store, locked, scen>>

\* the caller's Release(ref) of a dictionary it holds
ReleaseBuilt ==
    /\ \E i \in 1..Len(held) :
         LET h == Release(CallContext(heap), held[i])
         IN  /\ heap' = LiveObjs(h)
             /\ held' = [j \in 1..(Len(held) - 1) |->
                            IF j < i THEN held[j] ELSE held[j + 1]]
             /\ last' = [NoLast EXCEPT !.op = "release", !.ref = held[i],
                                       !.fault = h.fault,
                                       !.released = h.released]
    /\ UNCHANGED <<cfconst, pkgkeys, conv, item, updateItem, lastSet, store, locked, scen>>

NextBuild == Build \/ ReleaseBuilt

SpecBuild == InitBuild /\ [][NextBuild]_vars

\* how often id occurs in the sequence s
Occurrences(s, id) == Cardinality({i \in 1..Len(s) : s[i] = id})

\* some value of the map fails to convert
HasFailingEntry(attr) ==
    \E key \in DOMAIN attr :
        \/ StringToCFString(key).err
        \/ attr[key].t = "string" /\ StringToCFString(attr[key].b).err
        \/ attr[key].t = "bytes" /\ BytesToCFData(attr[key].b).err
        \/ attr[key].t = "convertable" /\ attr[key].i = 0
        \/ attr[key].t \notin {"ref", "bool", "int32", "bytes", "string",
                               "convertable"}

(***************************************************************************)
(* C5: if the conversion of any key or value fails (invalid UTF-8 or       *)
(* oversized string, oversized bytes, a failing Convertable, an            *)
(* unsupported value type), ConvertMapToCFDictionary returns a null        *)
(* dictionary and an error, every object created in the call has been      *)
(* released exactly once and is dead, and nothing else was released: no    *)
(* pre-existing reference, no boolean singleton.                           *)
(***************************************************************************)
C5_FailedBuildReleasesAll ==
    (last.op = "build" /\ HasFailingEntry(item)) =>
        /\ last.err = "convert"
        /\ last.ref = Null
        /\ ~last.fault
        /\ \A id \in last.created :
             Occurrences(last.released, id) = 1 /\ id \notin DOMAIN heap
        /\ \A i \in 1..Len(last.released) : last.released[i] \in last.created
        /\ \A id \in DOMAIN InitialObjs :
             id \in DOMAIN heap /\ heap[id] = InitialObjs[id]

C5_Witness ==
    /\ last.op = "build" /\ last.err = "convert"
    /\ Cardinality(last.created) >= 2
    /\ \A id \in last.created : Occurrences(last.released, id) = 1
    /\ \E key \in DOMAIN item : item[key] = GoVal("convertable", <<>>, 0)

\* the map holds the null reference as a value
HasNullValue(attr) == \E key \in DOMAIN attr : attr[key] = GoRefVal(Null)

\* the reference points to a constant or to an object that is alive
IsValidRef(id) == IsConstant(id) \/ id \in DOMAIN heap

\* two references to the same object or to objects of equal content
SameContent(a, b) ==
    \/ a = b
    \/ /\ a \in DOMAIN heap /\ b \in DOMAIN heap
       /\ [heap[a] EXCEPT !.rc = 0] = [heap[b] EXCEPT !.rc = 0]

\* every entry of the dictionary d is an entry of the dictionary e
EntriesAmong(d, e) ==
    \A i \in 1..Len(heap[d].keys) :
        \E j \in 1..Len(heap[e].keys) :
            /\ SameContent(heap[d].keys[i], heap[e].keys[j])
            /\ SameContent(heap[d].vals[i], heap[e].vals[j])

\* the texts of the keys of the dictionary d
KeyTexts(d) ==
    {EncodeUTF8(Deref(CallContext(heap), heap[d].keys[i]).bytes) :
        i \in 1..Len(heap[d].keys)}

(***************************************************************************)
(* C11: the dictionaries ConvertMapToCFDictionary has built from the same  *)
(* unchanged attribute map are distinct objects with equal key/value       *)
(* content, one entry for each key of the map; after the release of one of *)
(* them, every other one is alive and so is every key and value it holds.  *)
(* The empty map yields a non-null dictionary with no entries.             *)
(***************************************************************************)
C11_RebuildIsIndependent ==
    ~HasNullValue(item) =>
        /\ \A i \in 1..Len(held) :
             /\ held[i] \in DOMAIN heap
             /\ heap[held[i]].type = "CFDictionary"
             /\ Len(heap[held[i]].keys) = Cardinality(DOMAIN item)
             /\ KeyTexts(held[i]) = DOMAIN item
             /\ \A k \in 1..Len(heap[held[i]].keys) :
                  /\ IsValidRef(heap[held[i]].keys[k])
                  /\ IsValidRef(heap[held[i]].vals[k])
        /\ \A i, j \in 1..Len(held) :
             i # j => /\ held[i] # held[j]
                      /\ EntriesAmong(held[i], held[j])
        /\ (last.op = "build" /\ ~HasFailingEntry(item)) =>
                /\ last.err = ""
                /\ last.ref # Null
                /\ held # <<>> /\ held[Len(held)] = last.ref
        /\ ~last.fault

\* two dictionaries of a map with a string and a caller's reference were
\* built and one of them has been released
C11_Witness ==
    /\ last.op = "release"
    /\ Len(held) = 1
    /\ Cardinality(DOMAIN item) = 2
    /\ \E key \in DOMAIN item : item[key] = GoStringVal(Str(<<97>>))
    /\ \E key \in DOMAIN item : item[key] = GoRefVal(PreExisting)
    /\ held[1] \in DOMAIN heap
    /\ \A k \in 1..Len(heap[held[1]].keys) :
         IsValidRef(heap[held[1]].keys[k]) /\ IsValidRef(heap[held[1]].vals[k])

InitItem ==
    /\ Boot
    /\ conv = ConvIdle
    /\ item = NewItem
    /\ updateItem = NoItem
    /\ lastSet = NoItem
    /\ heap = <<>>
    /\ store = {}
    /\ locked = FALSE
    /\ held = <<>>
    /\ last = NoLast
    /\ scen = NoScen

NextItem ==
    \/ CallSetString \/ CallSetInt32 \/ CallSetData
    \/ CallSetService \/ CallSetServer \/ CallSetProtocol
    \/ CallSetAuthenticationType \/ CallSetPort \/ CallSetPath
    \/ CallSetAccount \/ CallSetLabel \/ CallSetDescription
    \/ CallSetComment \/ CallSetAccessGroup
    \/ CallSetSecClass \/ CallSetSynchronizable \/ CallSetAccessible
    \/ CallSetMatchLimit
    \/ CallSetReturnAttributes \/ CallSetReturnData \/ CallSetReturnRef

SpecItem == InitItem /\ [][NextItem]_vars

\* the argument is the "empty" value of its type
IsEmptyArg(v) ==
    \/ v.t = "string" /\ v.b = <<>>
    \/ v.t = "int32" /\ v.i = 0
    \/ v.t = "bytes" /\ v.nil

\* the last call for the key was SetString, SetInt32, SetData or a typed
\* setter built on them
SetByBasicSetter(key) ==
    key \in DOMAIN lastSet /\ lastSet[key].t \in {"string", "int32", "bytes"}

(***************************************************************************)
(* C4: after any sequence of SetString, SetInt32 and SetData calls (and    *)
(* the typed setters built on them), a key is present in the attribute map *)
(* iff the most recent set of that key gave a non-empty value (non-empty   *)
(* string, non-zero int32, non-nil bytes), and then it holds exactly that  *)
(* value; no key maps to an empty string, a zero int32 or nil bytes; a key *)
(* never set is absent (so a set of one key changes no other key).         *)
(***************************************************************************)
C4_AbsenceInvariant ==
    /\ \A key \in DOMAIN lastSet :
         SetByBasicSetter(key) =>
            /\ key \in DOMAIN item <=> ~IsEmptyArg(lastSet[key])
            /\ key \in DOMAIN item => item[key] = lastSet[key]
    /\ \A key \in DOMAIN item :
         /\ key \in DOMAIN lastSet
         /\ ~IsEmptyArg(item[key])

C4_Witness ==
    /\ ServiceKey \in DOMAIN lastSet
    /\ lastSet[ServiceKey] = GoStringVal(<<>>)
    /\ ServiceKey \notin DOMAIN item
    /\ DataKey \in DOMAIN item
    /\ item[DataKey] = GoBytesVal(<<>>)

\* the sentinel of a declared value of an enumeration
SentinelOf(v) ==
    CASE v.t = "Synchronizable" ->
           (CASE v.i = SynchronizableAny -> kSecAttrSynchronizableAny
              [] v.i = SynchronizableYes -> kCFBooleanTrue
              [] v.i = SynchronizableNo -> kCFBooleanFalse)
      [] v.t = "Accessible" -> kSecAttrAccessible + v.i
      [] v.t = "MatchLimit" ->
           (CASE v.i = MatchLimitOne -> kSecMatchLimitOne
              [] v.i = MatchLimitAll -> kSecMatchLimitAll)

\* the value is one of the declared values of its enumeration
IsDeclared(v) ==
    \/ v.t = "Synchronizable" /\ v.i \in SynchronizableDefault..SynchronizableNo
    \/ v.t = "Accessible"
         /\ v.i \in AccessibleDefault..AccessibleAccessibleAlwaysThisDeviceOnly
    \/ v.t = "MatchLimit" /\ v.i \in MatchLimitDefault..MatchLimitAll

(***************************************************************************)
(* C14: after any sequence of setter calls, the key of SetSynchronizable,  *)
(* SetAccessible and SetMatchLimit is absent iff the most recent call of   *)
(* the setter passed the default value; after a call with another declared *)
(* value the key holds the sentinel of that value.  The default value      *)
(* stores nothing.                                                         *)
(***************************************************************************)
C14_EnumSetters ==
    \A key \in {SynchronizableKey, AccessibleKey, MatchLimitKey} :
        IF key \in DOMAIN lastSet
        THEN /\ lastSet[key].t \in {"Synchronizable", "Accessible", "MatchLimit"}
             /\ key \in DOMAIN item <=> lastSet[key].i # 0
             /\ (key \in DOMAIN item /\ IsDeclared(lastSet[key])) =>
                    item[key] = GoRefVal(SentinelOf(lastSet[key]))
        ELSE key \notin DOMAIN item

\* a limit was set, and the synchronizable attribute was set back to the
\* default
C14_Witness ==
    /\ SynchronizableKey \in DOMAIN lastSet
    /\ lastSet[SynchronizableKey].i = SynchronizableDefault
    /\ SynchronizableKey \notin DOMAIN item
    /\ MatchLimitKey \in DOMAIN item
    /\ item[MatchLimitKey] = GoRefVal(kSecMatchLimitAll)

(***************************************************************************)
(* C19: in an Item built by NewItem and the setters, called with any       *)
(* arguments (values outside the declared sets of SecClass,                *)
(* Synchronizable, Accessible and MatchLimit included), no attribute is    *)
(* the null reference, so that ConvertMapToCFDictionary puts no null value *)
(* into the dictionary for the store.                                      *)
(***************************************************************************)
C19_NoNullAttribute == ~HasNullValue(item)


(***************************************************************************)
(* keychain.go: the operations on the store.  An operation works on a call *)
(* context h and returns an outcome:                                       *)
(*   err         "" (nil), "convert", "status", "shape", "decode",         *)
(*               "toomany"                                                 *)
(*   status      the store status of an Error                              *)
(*   ref         the response of the store (QueryItemRef, QueryItem)       *)
(*   results     the []QueryResult, nilResults: it is nil                  *)
(*   data        the []byte of GetGenericPassword                          *)
(*   accounts    the []string of GetGenericPasswordAccounts                *)
(*   panic       the call panicked                                         *)
(*   verbCalls   the number of calls of a store verb                       *)
(*   reported    the status the store verb returned                        *)
(***************************************************************************)
Outcome(h, st) ==
    [h |-> h, store |-> st, err |-> "", status |-> errSecSuccess,
     ref |-> Null, results |-> <<>>, nilResults |-> TRUE, data |-> GoNilBytes,
     accounts |-> <<>>, panic |-> FALSE, verbCalls |-> 0,
     reported |-> errSecSuccess]

\* a mutant of checkError: "not found" is no error
checkError_NotFoundIsNil(errCode) ==
    IF errCode = errSecSuccess \/ errCode = errSecItemNotFound
    THEN [err |-> "", status |-> errSecSuccess]
    ELSE [err |-> "status", status |-> errCode]

checkError(errCode) ==
    IF errCode = errSecSuccess THEN [err |-> "", status |-> errSecSuccess]
    ELSE [err |-> "status", status |-> errCode]

\* a mutant of IsItemNotFound: no status is taken for "not found"
IsItemNotFound_Never(errCode) == FALSE

\* Error(errCode) == ErrorItemNotFound
IsItemNotFound(errCode) == errCode = errSecItemNotFound

\* the outcome of a call that has called a store verb: h the call context
\* after the deferred Release of the dictionaries, r the [status, store] of
\* the verb
VerbOutcome(h, r) ==
    LET checked(e) ==
            [Outcome(h, r.store) EXCEPT !.err = e.err, !.status = e.status,
                                        !.verbCalls = 1,
                                        !.reported = r.status]
    IN  checked(checkError(r.status))

AddItem(h, st, lk, attr, order) ==
    LET built(c) ==
            IF c.err THEN [Outcome(c.h, st) EXCEPT !.err = "convert"]
            ELSE VerbOutcome(Release(c.h, c.dict),
                             SecItemAdd(st, lk, c.h, c.dict))
    IN  built(ConvertMapToCFDictionary(h, attr, order))

\* a mutant of UpdateItem: the error of the second conversion is not looked
\* at
UpdateItem_Unchecked(h, st, lk, queryAttr, queryOrder, updateAttr, updateOrder) ==
    LET builtBoth(c, u) ==
            VerbOutcome(Release(Release(u.h, u.dict), c.dict),
                        SecItemUpdate(st, lk, u.h, c.dict, u.dict))
        built(c) ==
            IF c.err THEN [Outcome(c.h, st) EXCEPT !.err = "convert"]
            ELSE builtBoth(c, ConvertMapToCFDictionary(c.h, updateAttr,
                                                       updateOrder))
    IN  built(ConvertMapToCFDictionary(h, queryAttr, queryOrder))

UpdateItem(h, st, lk, queryAttr, queryOrder, updateAttr, updateOrder) ==
    LET builtBoth(c, u) ==
            IF u.err
            THEN [Outcome(Release(u.h, c.dict), st) EXCEPT !.err = "convert"]
            ELSE VerbOutcome(Release(Release(u.h, u.dict), c.dict),
                             SecItemUpdate(st, lk, u.h, c.dict, u.dict))
        built(c) ==
            IF c.err THEN [Outcome(c.h, st) EXCEPT !.err = "convert"]
            ELSE builtBoth(c, ConvertMapToCFDictionary(c.h, updateAttr,
                                                       updateOrder))
    IN  built(ConvertMapToCFDictionary(h, queryAttr, queryOrder))

DeleteItem(h, st, lk, attr, order) ==
    LET built(c) ==
            IF c.err THEN [Outcome(c.h, st) EXCEPT !.err = "convert"]
            ELSE VerbOutcome(Release(c.h, c.dict),
                             SecItemDelete(st, lk, c.h, c.dict))
    IN  built(ConvertMapToCFDictionary(h, attr, order))

DeleteGenericPasswordItem(h, st, lk, service, account, order) ==
    DeleteItem(h, st, lk,
               SetAccount(SetService(SetSecClass(NewItem,
                                                 SecClassGenericPassword),
                                     service),
                          account),
               order)

QueryItemRef(h, st, from, attr, order) ==
    LET called(r, h1) ==
            [Outcome(h1, st) EXCEPT !.verbCalls = 1, !.reported = r.status]
        checked(r, h1, e) ==
            IF IsItemNotFound(r.status) THEN called(r, h1)
            ELSE IF e.err # ""
            THEN [called(r, h1) EXCEPT !.err = e.err, !.status = e.status]
            ELSE [called(r, h1) EXCEPT !.ref = r.ref]
        copied(c, r) == checked(r, Release(r.h, c.dict), checkError(r.status))
        built(c) ==
            IF c.err THEN [Outcome(c.h, st) EXCEPT !.err = "convert"]
            ELSE copied(c, CopyMatching(st, from, c.h, c.dict))
    IN  built(ConvertMapToCFDictionary(h, attr, order))

\* the zero QueryResult
NoResult ==
    [Service |-> <<>>, Server |-> <<>>, Protocol |-> <<>>,
     AuthenticationType |-> <<>>, Port |-> 0, Path |-> <<>>,
     Account |-> <<>>, AccessGroup |-> <<>>, Label |-> <<>>,
     Description |-> <<>>, Comment |-> <<>>, Data |-> GoNilBytes,
     CreationDate |-> 0, ModificationDate |-> 0]

\* the text field of QueryResult an attribute key is decoded into
StringFieldOf(key) ==
    CASE key = ServiceKey -> "Service"
      [] key = ServerKey -> "Server"
      [] key = ProtocolKey -> "Protocol"
      [] key = AuthenticationTypeKey -> "AuthenticationType"
      [] key = PathKey -> "Path"
      [] key = AccountKey -> "Account"
      [] key = AccessGroupKey -> "AccessGroup"
      [] key = LabelKey -> "Label"
      [] key = DescriptionKey -> "Description"
      [] key = CommentKey -> "Comment"
      [] OTHER -> ""

\* CFDateToTime: the seconds of the date
CFDateToTime(o) == o.num

\* CFDictionaryToMap: the <<key, value>> pairs of the dictionary
CFDictionaryToMap(h, d) ==
    LET pairs(o) == [i \in 1..Len(o.keys) |-> <<o.keys[i], o.vals[i]>>]
    IN  pairs(Deref(h, d))

\* CFStringToString of the string at ref; fast: CFStringGetCStringPtr has
\* a pointer for every string that can have one
RefToString(h, ref, fast) ==
    LET read(o) == CFStringToString(o, fast /\ o.eightBit)
    IN  read(Deref(h, ref))

\* a mutant of ConvertField: a Port of any number type is taken
ConvertField_Coerce(h, acc, k, v, fast) ==
    LET port(val) ==
            IF val.panic THEN [acc EXCEPT !.panic = TRUE]
            ELSE [acc EXCEPT !.result.Port = val.out.i]
        data(b) ==
            IF b.panic THEN [acc EXCEPT !.panic = TRUE]
            ELSE [acc EXCEPT !.result.Data = b.out]
        switch(key, field) ==
            IF field # ""
            THEN [acc EXCEPT !.result[field] = RefToString(h, v, fast)]
            ELSE IF key = PortKey THEN port(CFNumberToInterface(Deref(h, v)))
            ELSE IF key = DataKey THEN data(CFDataToBytes(Deref(h, v)))
            ELSE IF key = CreationDateKey
            THEN [acc EXCEPT !.result.CreationDate = CFDateToTime(Deref(h, v))]
            ELSE IF key = ModificationDateKey
            THEN [acc EXCEPT
                    !.result.ModificationDate = CFDateToTime(Deref(h, v))]
            ELSE acc
        keyed(key) == switch(key, StringFieldOf(key))
    IN  keyed(RefToString(h, k, fast))

\* a mutant of ConvertField: a key without a case is an error
ConvertField_UnknownFails(h, acc, k, v, fast) ==
    LET port(val) ==
            IF val.panic THEN [acc EXCEPT !.panic = TRUE]
            ELSE IF val.out.t # "int32" THEN [acc EXCEPT !.err = TRUE]
            ELSE [acc EXCEPT !.result.Port = val.out.i]
        data(b) ==
            IF b.panic THEN [acc EXCEPT !.panic = TRUE]
            ELSE [acc EXCEPT !.result.Data = b.out]
        switch(key, field) ==
            IF field # ""
            THEN [acc EXCEPT !.result[field] = RefToString(h, v, fast)]
            ELSE IF key = PortKey THEN port(CFNumberToInterface(Deref(h, v)))
            ELSE IF key = DataKey THEN data(CFDataToBytes(Deref(h, v)))
            ELSE IF key = CreationDateKey
            THEN [acc EXCEPT !.result.CreationDate = CFDateToTime(Deref(h, v))]
            ELSE IF key = ModificationDateKey
            THEN [acc EXCEPT
                    !.result.ModificationDate = CFDateToTime(Deref(h, v))]
            ELSE [acc EXCEPT !.err = TRUE]
        keyed(key) == switch(key, StringFieldOf(key))
    IN  keyed(RefToString(h, k, fast))

\* one pass of the loop of convertResult: the case of the switch for the
\* key k with value v
ConvertField(h, acc, k, v, fast) ==
    LET port(val) ==
            IF val.panic THEN [acc EXCEPT !.panic = TRUE]
            ELSE IF val.out.t # "int32" THEN [acc EXCEPT !.err = TRUE]
            ELSE [acc EXCEPT !.result.Port = val.out.i]
        data(b) ==
            IF b.panic THEN [acc EXCEPT !.panic = TRUE]
            ELSE [acc EXCEPT !.result.Data = b.out]
        switch(key, field) ==
            IF field # ""
            THEN [acc EXCEPT !.result[field] = RefToString(h, v, fast)]
            ELSE IF key = PortKey THEN port(CFNumberToInterface(Deref(h, v)))
            ELSE IF key = DataKey THEN data(CFDataToBytes(Deref(h, v)))
            ELSE IF key = CreationDateKey
            THEN [acc EXCEPT !.result.CreationDate = CFDateToTime(Deref(h, v))]
            ELSE IF key = ModificationDateKey
            THEN [acc EXCEPT
                    !.result.ModificationDate = CFDateToTime(Deref(h, v))]
            ELSE acc
        keyed(key) == switch(key, StringFieldOf(key))
    IN  keyed(RefToString(h, k, fast))

RECURSIVE ConvertFields(_, _, _, _)
ConvertFields(h, acc, m, fast) ==
    IF m = <<>> \/ acc.err \/ acc.panic THEN acc
    ELSE ConvertFields(h, ConvertField(h, acc, Head(m)[1], Head(m)[2], fast),
                       Tail(m), fast)

\* the keys of a dictionary differ, so each field is written once and the
\* order of the loop over the map does not show in the result
convertResult(h, d, fast) ==
    ConvertFields(h, [result |-> NoResult, err |-> FALSE, panic |-> FALSE],
                  CFDictionaryToMap(h, d), fast)

\* a mutant of IsDictionary: every object is taken for a dictionary
IsDictionary_Any(o) == TRUE

\* C.CFGetTypeID(ref) == C.CFDictionaryGetTypeID()
IsDictionary(o) == o.type = "CFDictionary"

\* CFTypeDescription(ref): the description is copied, read and released
CFTypeDescription(h, ref) ==
    LET described(a) == Release(a.h, a.id)
    IN  described(Alloc(h, CFStringOf(<<>>)))

\* a mutant of ConvertElements: a result is put in front of the results
\* before it
RECURSIVE ConvertElements_Prepend(_, _, _, _)
ConvertElements_Prepend(h, arr, fast, acc) ==
    LET converted(r) ==
            IF r.panic THEN [acc EXCEPT !.panic = TRUE]
            ELSE IF r.err
            THEN [acc EXCEPT !.err = "decode", !.results = <<>>,
                             !.nilResults = TRUE]
            ELSE ConvertElements_Prepend(h, Tail(arr), fast,
                    [acc EXCEPT !.results = <<r.result>> \o @])
    IN  IF arr = <<>> \/ acc.err # "" \/ acc.panic THEN acc
        ELSE IF IsDictionary(Deref(h, Head(arr)))
        THEN converted(convertResult(h, Head(arr), fast))
        ELSE [acc EXCEPT !.err = "shape", !.results = <<>>,
                         !.nilResults = TRUE]

\* the loop of QueryItem over the elements of an array response
RECURSIVE ConvertElements(_, _, _, _)
ConvertElements(h, arr, fast, acc) ==
    LET converted(r) ==
            IF r.panic THEN [acc EXCEPT !.panic = TRUE]
            ELSE IF r.err
            THEN [acc EXCEPT !.err = "decode", !.results = <<>>,
                             !.nilResults = TRUE]
            ELSE ConvertElements(h, Tail(arr), fast,
                    [acc EXCEPT !.results = Append(@, r.result)])
    IN  IF arr = <<>> \/ acc.err # "" \/ acc.panic THEN acc
        ELSE IF IsDictionary(Deref(h, Head(arr)))
        THEN converted(convertResult(h, Head(arr), fast))
        ELSE [acc EXCEPT !.err = "shape", !.results = <<>>,
                         !.nilResults = TRUE]

QueryItem(h, st, from, attr, order, fast) ==
    LET fromDict(q, r) ==
            IF r.panic THEN [q EXCEPT !.panic = TRUE]
            ELSE IF r.err THEN [q EXCEPT !.err = "decode"]
            ELSE [q EXCEPT !.nilResults = FALSE, !.results = <<r.result>>]
        fromData(q, b) ==
            IF b.panic THEN [q EXCEPT !.panic = TRUE]
            ELSE [q EXCEPT !.nilResults = FALSE,
                           !.results = <<[NoResult EXCEPT !.Data = b.out]>>]
        typed(q, o) ==
            IF o.type = "CFArray"
            THEN ConvertElements(q.h, CFArrayToArray(q.h, q.ref), fast,
                                 [q EXCEPT !.nilResults = FALSE])
            ELSE IF IsDictionary(o)
            THEN fromDict(q, convertResult(q.h, q.ref, fast))
            ELSE IF o.type = "CFData" THEN fromData(q, CFDataToBytes(o))
            ELSE [q EXCEPT !.err = "shape",
                           !.h = CFTypeDescription(q.h, q.ref)]
        released(q, out) == [out EXCEPT !.h = Release(@, q.ref)]
        answered(q) ==
            IF q.err # "" THEN q
            ELSE IF q.ref = Null THEN q
            ELSE released(q, typed(q, Deref(q.h, q.ref)))
    IN  answered(QueryItemRef(h, st, from, attr, order))

GetGenericPasswordAccountsQuery(service) ==
    SetReturnAttributes(
      SetMatchLimit(
        SetService(SetSecClass(NewItem, SecClassGenericPassword), service),
        MatchLimitAll),
      TRUE)

GetGenericPasswordAccounts(h, st, from, service, order, fast) ==
    LET queried(r) ==
            IF r.err # "" \/ r.panic
            THEN [r EXCEPT !.results = <<>>, !.nilResults = TRUE]
            ELSE [r EXCEPT !.accounts =
                     [i \in 1..Len(r.results) |-> r.results[i].Account]]
    IN  queried(QueryItem(h, st, from,
                          GetGenericPasswordAccountsQuery(service), order,
                          fast))

GetGenericPasswordQuery(service, account, label, accessGroup) ==
    SetReturnData(
      SetMatchLimit(
        SetAccessGroup(
          SetLabel(
            SetAccount(
              SetService(SetSecClass(NewItem, SecClassGenericPassword),
                         service),
              account),
            label),
          accessGroup),
        MatchLimitOne),
      TRUE)

GetGenericPassword(h, st, from, service, account, label, accessGroup, order, fast) ==
    LET queried(r) ==
            IF r.err # "" \/ r.panic THEN r
            ELSE IF Len(r.results) > 1 THEN [r EXCEPT !.err = "toomany"]
            ELSE IF Len(r.results) = 1
            THEN [r EXCEPT !.data = r.results[1].Data]
            ELSE r
    IN  queried(QueryItem(h, st, from,
                          GetGenericPasswordQuery(service, account, label,
                                                  accessGroup),
                          order, fast))

(***************************************************************************)
(* Spec: a caller of the package and a store.  A call is one step; the     *)
(* caller takes its outcome (TakeResult) before the next call.             *)
(*   item   the Item of the call (of UpdateItem: the query item)           *)
(*   held   the responses the caller has from QueryItemRef                 *)
(*   scen   how far the caller is in the sequence AddItem, QueryItem,      *)
(*          DeleteItem, QueryItem on one service and account               *)
(***************************************************************************)
TheService == Str(<<115>>)                \* "s"

NoUTF8 == Str(<<195>>)                    \* a string that is no UTF-8

AccessGroups == {<<>>, Str(<<103>>)}      \* "", "g"

Secrets == {GoBytesVal(Str(<<1>>)), GoBytesVal(Str(<<1, 2>>))}

KeyListing ==
    <<SecClassKey, ServiceKey, ServerKey, ProtocolKey, AuthenticationTypeKey,
      PortKey, PathKey, LabelKey, AccountKey, AccessGroupKey, DataKey,
      DescriptionKey, CommentKey, CreationDateKey, ModificationDateKey,
      SynchronizableKey, AccessibleKey, MatchLimitKey, ReturnAttributesKey,
      ReturnDataKey, ReturnRefKey>>

Rotations(s) ==
    IF s = <<>> THEN {<<>>}
    ELSE {SubSeq(s, i, Len(s)) \o SubSeq(s, 1, i - 1) : i \in 1..Len(s)}

\* the orders of "for k, v := range attr" a call is taken with.  A range
\* over a small map starts at a random entry and wraps around.  When every
\* entry converts, the order decides only the addresses of objects that
\* are dead when the builder returns, and one order stands for all.
MapOrders(attr) ==
    LET listing == SelectSeq(KeyListing, LAMBDA k : k \in DOMAIN attr)
    IN  IF HasFailingEntry(attr) THEN Rotations(listing) ELSE {listing}


\* item := NewItem(); item.SetSecClass(...); ... as a caller writes a query
QueryFor(account, matchLimit, wantAttrs, wantData, wantRef) ==
    LET i1 == SetMatchLimit(
                SetAccount(
                  SetService(SetSecClass(NewItem, SecClassGenericPassword),
                             TheService),
                  account),
                matchLimit)
        i2 == IF wantAttrs THEN SetReturnAttributes(i1, TRUE) ELSE i1
        i3 == IF wantData THEN SetReturnData(i2, TRUE) ELSE i2
    IN  IF wantRef THEN SetReturnRef(i3, TRUE) ELSE i3

\* the return flags of the queries: none, one of the three, attributes
\* with data
ReturnFlags ==
    {<<FALSE, FALSE, FALSE>>, <<TRUE, FALSE, FALSE>>, <<FALSE, TRUE, FALSE>>,
     <<FALSE, FALSE, TRUE>>, <<TRUE, TRUE, FALSE>>}

\* the record matches the text attributes and the class of the Item
MatchesItem(rec, attr) ==
    /\ SecClassKey \in DOMAIN attr /\ attr[SecClassKey].i = rec.class
    /\ \A f \in TextFields :
         LET key == pkgkeys[FieldKey(f)]
         IN  key \in DOMAIN attr =>
                CFStringCreateWithBytes(attr[key].b).bytes = rec[f]

\* the orders in which the store may come upon the records a query
\* matches; it stops at the first one unless the query asks for all
RecordOrders(st, attr) ==
    LET orders(hit) ==
            IF hit = {} THEN {<<>>}
            ELSE IF /\ MatchLimitKey \in DOMAIN attr
                    /\ attr[MatchLimitKey] = GoRefVal(kSecMatchLimitAll)
            THEN Perms(hit)
            ELSE {<<r>> : r \in hit}
    IN  orders({r \in st : MatchesItem(r, attr)})

\* CFStringGetCStringPtr is called for the strings of a response only:
\* a query that asks for no attributes gets none
FastPaths(wantAttrs) == IF wantAttrs THEN BOOLEAN ELSE {FALSE}

\* the runtime types of a response and of the elements of an array
ShapeOf(h, ref) ==
    LET types(o) ==
            <<o.type>> \o
            (IF o.type = "CFArray"
             THEN [i \in 1..Len(o.vals) |-> Deref(h, o.vals[i]).type]
             ELSE <<>>)
    IN  IF ref = Null THEN <<>> ELSE types(Deref(h, ref))

\* the content of an object of a response: its type, its bytes and, of a
\* dictionary, its entries as [key, val], the key and value objects
ElementView(h, ref) ==
    LET entry(k, v) == [key |-> [k EXCEPT !.rc = 0], val |-> [v EXCEPT !.rc = 0]]
        view(o) ==
            [type |-> o.type, bytes |-> o.bytes,
             entries |-> IF o.type = "CFDictionary"
                         THEN [i \in 1..Len(o.keys) |->
                                  entry(Deref(h, o.keys[i]), Deref(h, o.vals[i]))]
                         ELSE <<>>]
    IN  view(Deref(h, ref))

\* the content of a response, with the content of the elements of an array
ResponseView(h, ref) ==
    LET top(v, o) ==
            [type |-> v.type, bytes |-> v.bytes, entries |-> v.entries,
             elems |-> IF o.type = "CFArray"
                       THEN [i \in 1..Len(o.vals) |-> ElementView(h, o.vals[i])]
                       ELSE <<>>]
    IN  top(ElementView(h, ref), Deref(h, ref))

Record(op, r) ==
    [op |-> op, err |-> r.err, status |-> r.status, panic |-> r.panic,
     ref |-> r.ref, results |-> r.results, nilResults |-> r.nilResults,
     data |-> r.data, accounts |-> r.accounts, shape |-> ShapeOf(r.h, r.ref),
     response |-> ResponseView(r.h, r.ref),
     verbCalls |-> r.verbCalls, reported |-> r.reported, fault |-> r.h.fault,
     released |-> r.h.released, created |-> r.h.created]

\* the effect of a call with outcome r on the state; keep: the caller
\* keeps the response
ReturnsBoth(op, r, attr, updateAttr, keep, newScen) ==
    /\ heap' = LiveObjs(r.h)
    /\ store' = r.store
    /\ last' = Record(op, r)
    /\ item' = attr
    /\ updateItem' = updateAttr
    /\ held' = IF keep /\ r.ref # Null THEN Append(held, r.ref) ELSE held
    /\ scen' = newScen
    /\ UNCHANGED <<cfconst, pkgkeys, conv, lastSet, locked>>

\* a call with one Item
Returns(op, r, attr, keep, newScen) ==
    ReturnsBoth(op, r, attr, NoItem, keep, newScen)

Idle == last.op = "none"

\* the accounts of the selectors: "a", none, and one that does not convert
Selectors == {Str(<<97>>), <<>>, NoUTF8}

\* the items added: account "a" with every secret and with every access
\* group, account "b", one item with an account that does not convert and
\* one with a secret of 2^32 bytes
AddInputs ==
    ({Str(<<97>>)} \X {<<>>} \X Secrets)
        \cup ({Str(<<97>>)} \X AccessGroups \X {GoBytesVal(Str(<<1>>))})
        \cup {<<Str(<<98>>), <<>>, GoBytesVal(Str(<<1>>))>>,
              <<NoUTF8, <<>>, GoBytesVal(Str(<<1>>))>>,
              <<Str(<<98>>), <<>>, GoBytesVal(<<Run(0, Big(65536, 0))>>)>>}

CallAddItem ==
    /\ Idle
    /\ Cardinality(store) < MaxRecords
    /\ \E in \in AddInputs :
         LET account == in[1]
             data == in[3]
             attr == NewGenericPassword(TheService, account, <<>>, data, in[2])
             fresh == /\ ~locked
                      /\ account = Str(<<97>>)
                      /\ \A r \in store : ~(/\ r.svce = TheService
                                            /\ r.acct = account)
         IN  \E order \in MapOrders(attr) :
               Returns("AddItem",
                       AddItem(CallContext(heap), store, locked, attr, order),
                       attr, FALSE,
                       IF fresh THEN [step |-> 1, sel |-> account, d |-> data]
                       ELSE NoScen)

\* the changes of an update: another secret, an account that does not
\* convert
Changes == {SetData(NewItem, d) : d \in Secrets} \cup {SetAccount(NewItem, NoUTF8)}

UpdateInputs ==
    ({Str(<<97>>), <<>>} \X Changes)
        \cup {<<NoUTF8, SetData(NewItem, GoBytesVal(Str(<<1>>)))>>}

CallUpdateItem ==
    /\ Idle
    /\ \E in \in UpdateInputs :
         LET attr == QueryFor(in[1], MatchLimitDefault, FALSE, FALSE, FALSE)
             updateAttr == in[2]
         IN  \E order \in MapOrders(attr), updateOrder \in MapOrders(updateAttr) :
               ReturnsBoth("UpdateItem",
                           UpdateItem(CallContext(heap), store, locked, attr,
                                      order, updateAttr, updateOrder),
                           attr, updateAttr, FALSE, NoScen)

CallDeleteItem ==
    /\ Idle
    /\ \E account \in Selectors :
         LET attr == QueryFor(account, MatchLimitDefault, FALSE, FALSE, FALSE)
             next == scen.step = 2 /\ ~locked /\ account = scen.sel
         IN  \E order \in MapOrders(attr) :
               Returns("DeleteItem",
                       DeleteGenericPasswordItem(CallContext(heap), store,
                                                 locked, TheService, account,
                                                 order),
                       attr, FALSE,
                       IF next THEN [scen EXCEPT !.step = 3] ELSE NoScen)

QueryMatchLimits == {MatchLimitOne, MatchLimitAll}

\* the queries: account "a" or none, every limit and choice of flags, and
\* one query with an account that does not convert
QueryInputs ==
    ({Str(<<97>>), <<>>} \X QueryMatchLimits \X ReturnFlags)
        \cup {<<NoUTF8, MatchLimitOne, <<FALSE, TRUE, FALSE>>>>}

CallQueryItem ==
    /\ Idle
    /\ \E in \in QueryInputs :
         LET account == in[1]
             matchLimit == in[2]
             flags == in[3]
             attr == QueryFor(account, matchLimit, flags[1], flags[2], flags[3])
             next == /\ scen.step \in {1, 3} /\ ~locked /\ account = scen.sel
                     /\ matchLimit = MatchLimitOne
                     /\ flags = <<FALSE, TRUE, FALSE>>
         IN  \E order \in MapOrders(attr), fast \in FastPaths(flags[1]),
                pick \in RecordOrders(store, attr) :
               Returns("QueryItem",
                       QueryItem(CallContext(heap), store,
                                 FromStore(locked, pick), attr, order, fast),
                       attr, FALSE,
                       IF next THEN [scen EXCEPT !.step = @ + 1] ELSE NoScen)

\* the caller asks for references to the items and keeps the response
CallQueryItemRef ==
    /\ Idle
    /\ Len(held) < MaxHeld
    /\ \E account \in Selectors :
         LET attr == QueryFor(account, MatchLimitDefault, FALSE, FALSE, TRUE)
         IN  \E order \in MapOrders(attr), pick \in RecordOrders(store, attr) :
               Returns("QueryItemRef",
                       QueryItemRef(CallContext(heap), store,
                                    FromStore(locked, pick), attr, order),
                       attr, TRUE, NoScen)

CallGetGenericPassword ==
    /\ Idle
    /\ \E account \in Selectors, accessGroup \in AccessGroups :
         LET attr == GetGenericPasswordQuery(TheService, account, <<>>,
                                             accessGroup)
         IN  \E order \in MapOrders(attr), fast \in FastPaths(FALSE),
                pick \in RecordOrders(store, attr) :
               Returns("GetGenericPassword",
                       GetGenericPassword(CallContext(heap), store,
                                          FromStore(locked, pick), TheService,
                                          account, <<>>, accessGroup, order,
                                          fast),
                       attr, FALSE, NoScen)

CallGetGenericPasswordAccounts ==
    /\ Idle
    /\ \E service \in {TheService, NoUTF8} :
         LET attr == GetGenericPasswordAccountsQuery(service)
         IN  \E order \in MapOrders(attr), fast \in FastPaths(TRUE),
                pick \in RecordOrders(store, attr) :
               Returns("GetGenericPasswordAccounts",
                       GetGenericPasswordAccounts(
                          CallContext(heap), store, FromStore(locked, pick),
                          service, order, fast),
                       attr, FALSE, NoScen)

(***************************************************************************)
(* A store the package knows nothing about may answer a query with any     *)
(* object: QueryItem is called against every response of a small family.   *)
(***************************************************************************)
ResponseKinds ==
    {"string", "number", "itemref", "data", "dict", "dictPort32", "dictPort64"}

ElementKinds == {"dict", "dictPort64", "itemref"}

RECURSIVE SeqsUpTo(_, _)
SeqsUpTo(S, n) ==
    IF n = 0 THEN {<<>>}
    ELSE LET T == SeqsUpTo(S, n - 1)
         IN  T \cup {Append(q, x) : q \in T, x \in S}

ResponseShapes ==
    {[top |-> k, elems |-> <<>>] : k \in ResponseKinds}
        \cup {[top |-> "array", elems |-> e] : e \in SeqsUpTo(ElementKinds, MaxElems)}

\* the answer does not depend on the records of the store above: the call
\* is taken where that store is empty
CallQueryItemAnyResponse ==
    /\ Idle
    /\ store = {}
    /\ \E shape \in ResponseShapes, fast \in FastPaths(TRUE) :
         LET attr == QueryFor(<<>>, MatchLimitAll, TRUE, FALSE, FALSE)
         IN  \E order \in MapOrders(attr) :
               Returns("QueryItemAny",
                       QueryItem(CallContext(heap), store, FromAny(shape), attr,
                                 order, fast),
                       attr, FALSE, NoScen)

\* the caller's Release(ref) of a response it holds
ReleaseResponse ==
    /\ Idle
    /\ \E i \in 1..Len(held) :
         LET h == Release(CallContext(heap), held[i])
         IN  /\ heap' = LiveObjs(h)
             /\ held' = [j \in 1..(Len(held) - 1) |->
                            IF j < i THEN held[j] ELSE held[j + 1]]
             /\ last' = [NoLast EXCEPT !.op = "release", !.ref = held[i],
                                       !.fault = h.fault,
                                       !.released = h.released]
    /\ scen' = NoScen
    /\ UNCHANGED <<cfconst, pkgkeys, conv, item, updateItem, lastSet, store, locked>>

\* the user's session locks the store
Lock ==
    /\ Idle /\ ~locked
    /\ locked' = TRUE
    /\ scen' = NoScen
    /\ UNCHANGED <<cfconst, pkgkeys, conv, item, updateItem, lastSet, heap, store, held, last>>

Unlock ==
    /\ Idle /\ locked
    /\ locked' = FALSE
    /\ scen' = NoScen
    /\ UNCHANGED <<cfconst, pkgkeys, conv, item, updateItem, lastSet, heap, store, held, last>>

\* the caller takes the outcome of its call
TakeResult ==
    /\ ~Idle
    /\ last' = NoLast
    /\ item' = NoItem
    /\ updateItem' = NoItem
    /\ scen' = IF scen.step = 4 THEN NoScen ELSE scen
    /\ UNCHANGED <<cfconst, pkgkeys, conv, lastSet, heap, store, locked, held>>

Init ==
    /\ Boot
    /\ conv = ConvIdle
    /\ item = NoItem
    /\ updateItem = NoItem
    /\ lastSet = NoItem
    /\ heap = <<>>
    /\ store = {}
    /\ locked = FALSE
    /\ held = <<>>
    /\ last = NoLast
    /\ scen = NoScen

Next ==
    \/ CallAddItem \/ CallUpdateItem \/ CallDeleteItem
    \/ CallQueryItem \/ CallQueryItemRef
    \/ CallGetGenericPassword \/ CallGetGenericPasswordAccounts
    \/ CallQueryItemAnyResponse
    \/ ReleaseResponse \/ Lock \/ Unlock \/ TakeResult

Spec == Init /\ [][Next]_vars

\* the calls of the package
CallOps ==
    {"AddItem", "UpdateItem", "DeleteItem", "QueryItem", "QueryItemRef",
     "GetGenericPassword", "GetGenericPasswordAccounts", "QueryItemAny"}

\* the call has reached the store, which is unlocked and has no record
\* that matches the Item of the call
NothingMatches ==
    /\ last.verbCalls = 1
    /\ ~locked
    /\ SecClassKey \in DOMAIN item
    /\ \A r \in store : ~MatchesItem(r, item)

(***************************************************************************)
(* C1: QueryItem on a selector that matches no record of the store (the    *)
(* store answers ItemNotFound) returns an empty result list and no error;  *)
(* QueryItemRef in the same situation returns a null reference and no      *)
(* error.                                                                  *)
(***************************************************************************)
C1_NotFoundIsEmpty ==
    /\ (last.op = "QueryItem" /\ NothingMatches) =>
            /\ last.err = ""
            /\ ~last.panic
            /\ last.results = <<>>
    /\ (last.op = "QueryItemRef" /\ NothingMatches) =>
            /\ last.err = ""
            /\ last.ref = Null

C1_Witness ==
    /\ last.op = "QueryItem"
    /\ NothingMatches
    /\ store # {}
    /\ AccountKey \in DOMAIN item
    /\ last.err = ""
    /\ last.results = <<>>

(***************************************************************************)
(* C2: GetGenericPassword, whenever two records of the store match the     *)
(* given service, account, label and access group, fails with an error and *)
(* returns the data of neither record.                                     *)
(***************************************************************************)
C2_AmbiguousLookupFails ==
    (/\ last.op = "GetGenericPassword"
     /\ last.verbCalls = 1
     /\ ~locked
     /\ Cardinality({r \in store : MatchesItem(r, item)}) >= 2)
        => (last.err # "" /\ last.data = GoNilBytes)

(***************************************************************************)
(* C3: from a store with no record of the service and account, the calls   *)
(* AddItem(generic password, service, account, data d), QueryItem(the same *)
(* class, service and account, returnData, matchLimit one), DeleteItem(the *)
(* same selector), QueryItem(the same selector), one after the other:      *)
(* AddItem succeeds; the first QueryItem returns exactly one QueryResult,  *)
(* whose Data is d; DeleteItem succeeds; the second QueryItem returns an   *)
(* empty list and no error.                                                *)
(***************************************************************************)
C3_AddQueryDeleteQuery ==
    /\ (scen.step = 1 /\ last.op = "AddItem") => last.err = ""
    /\ (scen.step = 2 /\ last.op = "QueryItem") =>
            /\ last.err = ""
            /\ ~last.panic
            /\ Len(last.results) = 1
            /\ last.results[1].Data = scen.d
    /\ (scen.step = 3 /\ last.op = "DeleteItem") => last.err = ""
    /\ (scen.step = 4 /\ last.op = "QueryItem") =>
            /\ last.err = ""
            /\ ~last.panic
            /\ last.results = <<>>

C3_Witness ==
    /\ scen.step = 4
    /\ last.op = "QueryItem"
    /\ scen.d = GoBytesVal(Str(<<1, 2>>))
    /\ last.results = <<>>

RECURSIVE SumOver(_, _)
SumOver(S, id) ==
    IF S = {} THEN 0
    ELSE LET o == CHOOSE x \in S : TRUE
         IN  Occurrences(heap[o].keys \o heap[o].vals, id) + SumOver(S \ {o}, id)

\* the owners of an object: the caller, for a response it holds, and the
\* live collections that contain it
Owners(id) == Occurrences(held, id) + SumOver(DOMAIN heap, id)

(***************************************************************************)
(* C6: when AddItem, UpdateItem, DeleteItem or QueryItem returns, on every *)
(* exit path, every external value the call created or received as owner   *)
(* has a balanced reference count: no object the call created is alive     *)
(* (nothing is leaked), nothing was released more often than it was        *)
(* retained, and every live object has as many references as it has        *)
(* owners.  QueryItemRef alone leaves its non-null response alive, with    *)
(* the caller as its owner.                                                *)
(***************************************************************************)
C6_BalancedReferenceCounts ==
    last.op \in CallOps =>
        /\ ~last.fault
        /\ \A id \in DOMAIN heap : heap[id].rc = Owners(id)
        /\ last.op # "QueryItemRef" => last.created \cap DOMAIN heap = {}
        /\ (last.op = "QueryItemRef" /\ last.ref # Null) =>
                /\ last.ref \in DOMAIN heap
                /\ Occurrences(held, last.ref) = 1

C6_Witness ==
    /\ last.op = "UpdateItem"
    /\ last.err = "convert"
    /\ last.created # {}
    /\ held # <<>>
    /\ ~last.fault
    /\ last.created \cap DOMAIN heap = {}

\* a response QueryItem has no case for: no array, dictionary or data, or
\* an array with an element that is no dictionary
UnexpectedShape(shape) ==
    /\ shape # <<>>
    /\ \/ shape[1] \notin {"CFArray", "CFDictionary", "CFData"}
       \/ /\ shape[1] = "CFArray"
          /\ \E i \in 2..Len(shape) : shape[i] # "CFDictionary"

(***************************************************************************)
(* C7: QueryItem does not panic on an unexpected response: a non-null      *)
(* response whose runtime type is neither array, dictionary nor data, and  *)
(* an array response with an element that is no dictionary, make QueryItem *)
(* return an error and a nil result list (no results of the elements       *)
(* converted before).                                                      *)
(***************************************************************************)
C7_ShapeMismatchIsError ==
    (last.op \in {"QueryItem", "QueryItemAny"} /\ UnexpectedShape(last.shape))
        => /\ ~last.panic
           /\ last.err # ""
           /\ last.nilResults
           /\ last.results = <<>>

C7_Witness ==
    /\ last.op = "QueryItemAny"
    /\ last.shape = <<"CFArray", "CFDictionary", "SecKeychainItem">>
    /\ last.err = "shape"
    /\ last.nilResults

\* the text the Item gives an attribute of a record ("": none)
ItemText(attr, f) ==
    IF pkgkeys[FieldKey(f)] \in DOMAIN attr
    THEN CFStringCreateWithBytes(attr[pkgkeys[FieldKey(f)]].b).bytes
    ELSE <<>>

\* the store holds the item the Item describes: a record of its class,
\* service, account and access group
ItemExists(st, attr) ==
    \E r \in st :
        /\ r.class = attr[SecClassKey].i
        /\ \A f \in {"svce", "acct", "agrp"} : r[f] = ItemText(attr, f)

(***************************************************************************)
(* C12: a call of AddItem, UpdateItem or DeleteItem that reaches the store *)
(* returns no error iff the store reported success, and otherwise an Error *)
(* whose code is the status the store reported: with an unlocked store,    *)
(* DuplicateItem when AddItem adds an item the store holds, ItemNotFound   *)
(* when the selector of UpdateItem or DeleteItem matches no record.        *)
(* ItemNotFound is a success only for the queries.                         *)
(***************************************************************************)
C12_StatusIsReported ==
    [][(last'.op \in {"AddItem", "UpdateItem", "DeleteItem"}
           /\ last'.verbCalls = 1) =>
          /\ last'.err = "" <=> last'.reported = errSecSuccess
          /\ last'.err # "" =>
                (last'.err = "status" /\ last'.status = last'.reported)
          /\ (last'.op = "AddItem" /\ ~locked /\ ItemExists(store, item')) =>
                /\ last'.err = "status"
                /\ last'.status = errSecDuplicateItem
                /\ store' = store
          /\ (/\ last'.op \in {"UpdateItem", "DeleteItem"}
              /\ ~locked
              /\ \A r \in store : ~MatchesItem(r, item')) =>
                /\ last'.err = "status"
                /\ last'.status = errSecItemNotFound
                /\ store' = store]_vars

\* DeleteItem has found no record for its selector in a store with records
C12_Witness ==
    /\ last.op = "DeleteItem"
    /\ last.verbCalls = 1
    /\ store # {}
    /\ last.err = "status"
    /\ last.status = errSecItemNotFound

\* the calls with one store verb
VerbOps ==
    {"AddItem", "UpdateItem", "DeleteItem", "QueryItemRef", "QueryItem",
     "QueryItemAny"}

(***************************************************************************)
(* C13: a call of AddItem, UpdateItem, DeleteItem, QueryItemRef or         *)
(* QueryItem calls its store verb exactly once when every attribute        *)
(* converts, whatever the store answers, and not at all when a conversion  *)
(* fails (for UpdateItem: of the selector or of the changes); the call     *)
(* then returns the conversion error.                                      *)
(***************************************************************************)
C13_OneVerbCallOrNone ==
    last.op \in VerbOps =>
        IF HasFailingEntry(item) \/ HasFailingEntry(updateItem)
        THEN last.verbCalls = 0 /\ last.err = "convert"
        ELSE last.verbCalls = 1 /\ last.err # "convert"

\* UpdateItem with a selector that converts and changes that do not
C13_Witness ==
    /\ last.op = "UpdateItem"
    /\ store # {}
    /\ ~HasFailingEntry(item)
    /\ HasFailingEntry(updateItem)
    /\ last.verbCalls = 0

\* the values a dictionary of a response has under the key
ValuesAt(entries, key) ==
    {entries[i].val : i \in {j \in 1..Len(entries) :
                                EncodeUTF8(entries[j].key.bytes) = key}}

\* the text, the number and the bytes of the value under the key; the zero
\* value when the dictionary has no such key
TextAt(entries, key) ==
    IF ValuesAt(entries, key) = {} THEN <<>>
    ELSE EncodeUTF8((CHOOSE v \in ValuesAt(entries, key) : TRUE).bytes)

NumberAt(entries, key) ==
    IF ValuesAt(entries, key) = {} THEN 0
    ELSE (CHOOSE v \in ValuesAt(entries, key) : TRUE).num

BytesAt(entries, key) ==
    IF ValuesAt(entries, key) = {} THEN GoNilBytes
    ELSE GoBytesVal((CHOOSE v \in ValuesAt(entries, key) : TRUE).bytes)

\* the QueryResult a dictionary of a response stands for
Decoded(entries) ==
    [Service |-> TextAt(entries, ServiceKey),
     Server |-> TextAt(entries, ServerKey),
     Protocol |-> TextAt(entries, ProtocolKey),
     AuthenticationType |-> TextAt(entries, AuthenticationTypeKey),
     Port |-> NumberAt(entries, PortKey),
     Path |-> TextAt(entries, PathKey),
     Account |-> TextAt(entries, AccountKey),
     AccessGroup |-> TextAt(entries, AccessGroupKey),
     Label |-> TextAt(entries, LabelKey),
     Description |-> TextAt(entries, DescriptionKey),
     Comment |-> TextAt(entries, CommentKey),
     Data |-> BytesAt(entries, DataKey),
     CreationDate |-> NumberAt(entries, CreationDateKey),
     ModificationDate |-> NumberAt(entries, ModificationDateKey)]

\* the Port of the dictionary, if it has one, is a 32-bit signed number
PortDecodes(entries) ==
    \A v \in ValuesAt(entries, PortKey) : v.type = "CFNumber" /\ v.ntype = "SInt32"

\* the calls of QueryItem
QueryOps == {"QueryItem", "QueryItemAny"}

(***************************************************************************)
(* C15: QueryItem on a non-null response.  An array of n dictionaries      *)
(* (each of which decodes) yields n QueryResults, the i-th decoded from    *)
(* the i-th dictionary of the array; a single dictionary yields one        *)
(* QueryResult, decoded from it; a data object yields one QueryResult      *)
(* whose Data is the payload and whose other fields are zero.              *)
(***************************************************************************)
C15_ResponseIsNormalized ==
    last.op \in QueryOps =>
        /\ (/\ last.response.type = "CFArray"
            /\ \A i \in 1..Len(last.response.elems) :
                 /\ last.response.elems[i].type = "CFDictionary"
                 /\ PortDecodes(last.response.elems[i].entries)) =>
                /\ last.err = "" /\ ~last.panic /\ ~last.nilResults
                /\ Len(last.results) = Len(last.response.elems)
                /\ \A i \in 1..Len(last.results) :
                     last.results[i] = Decoded(last.response.elems[i].entries)
        /\ (/\ last.response.type = "CFDictionary"
            /\ PortDecodes(last.response.entries)) =>
                /\ last.err = "" /\ ~last.panic
                /\ last.results = <<Decoded(last.response.entries)>>
        /\ last.response.type = "CFData" =>
                /\ last.err = "" /\ ~last.panic
                /\ Len(last.results) = 1
                /\ last.results[1].Data.b = last.response.bytes
                /\ ~last.results[1].Data.nil
                /\ [last.results[1] EXCEPT !.Data = GoNilBytes] = NoResult

\* an array of the two records of the store, in the order in which the
\* store came upon them
C15_Witness ==
    /\ last.op = "QueryItem"
    /\ last.response.type = "CFArray"
    /\ Len(last.response.elems) = 2
    /\ Len(last.results) = 2
    /\ last.results[1].Account = Str(<<98>>)
    /\ last.results[2].Account = Str(<<97>>)

\* the response holds a dictionary with a Port that is no 32-bit signed
\* number, as the response itself or as the first element of an array
\* that does not decode
HasUndecodablePort(resp) ==
    \/ resp.type = "CFDictionary" /\ ~PortDecodes(resp.entries)
    \/ /\ resp.type = "CFArray"
       /\ \E i \in 1..Len(resp.elems) :
            /\ resp.elems[i].type = "CFDictionary"
            /\ ~PortDecodes(resp.elems[i].entries)
            /\ \A j \in 1..(i - 1) :
                 /\ resp.elems[j].type = "CFDictionary"
                 /\ PortDecodes(resp.elems[j].entries)

(***************************************************************************)
(* C16: when the value under the Port key of a response dictionary is a    *)
(* number of another type than 32-bit signed, convertResult returns a type *)
(* mismatch error and no QueryResult, and QueryItem returns that error and *)
(* a nil list: no Port is filled from a number of another type.            *)
(***************************************************************************)
C16_PortTypeMismatch ==
    (last.op \in QueryOps /\ HasUndecodablePort(last.response)) =>
        /\ ~last.panic
        /\ last.err = "decode"
        /\ last.nilResults
        /\ last.results = <<>>

\* the second dictionary of an array has a 64-bit Port
C16_Witness ==
    /\ last.op = "QueryItemAny"
    /\ last.response.type = "CFArray"
    /\ Len(last.response.elems) = 2
    /\ PortDecodes(last.response.elems[1].entries)
    /\ last.response.elems[2].type = "CFDictionary"
    /\ ~PortDecodes(last.response.elems[2].entries)
    /\ last.err = "decode"

\* the attribute key of each field of QueryResult
KeyOfField ==
    [Service |-> ServiceKey, Server |-> ServerKey, Protocol |-> ProtocolKey,
     AuthenticationType |-> AuthenticationTypeKey, Port |-> PortKey,
     Path |-> PathKey, Account |-> AccountKey, AccessGroup |-> AccessGroupKey,
     Label |-> LabelKey, Description |-> DescriptionKey,
     Comment |-> CommentKey, Data |-> DataKey,
     CreationDate |-> CreationDateKey,
     ModificationDate |-> ModificationDateKey]

\* the dictionaries of the response, in the order of their results
Dictionaries(resp) ==
    IF resp.type = "CFDictionary" THEN <<resp.entries>>
    ELSE IF resp.type = "CFArray"
    THEN [i \in 1..Len(resp.elems) |-> resp.elems[i].entries]
    ELSE <<>>

\* the response is a dictionary or an array of dictionaries, and each
\* Port in it decodes
IsDecodable(resp) ==
    /\ resp.type \in {"CFDictionary", "CFArray"}
    /\ \A i \in 1..Len(resp.elems) : resp.elems[i].type = "CFDictionary"
    /\ \A i \in 1..Len(Dictionaries(resp)) : PortDecodes(Dictionaries(resp)[i])

(***************************************************************************)
(* C17: in the QueryResult convertResult makes of a response dictionary, a *)
(* field is not zero only if the dictionary has the key of the field, a    *)
(* field whose key the dictionary has holds the decoded value of that key, *)
(* and a field whose key is absent is zero; keys outside the vocabulary    *)
(* change no field and are no error.                                       *)
(***************************************************************************)
C17_OnlyOwnKeyFillsField ==
    (last.op \in QueryOps /\ IsDecodable(last.response)) =>
        /\ last.err = "" /\ ~last.panic
        /\ Len(last.results) = Len(Dictionaries(last.response))
        /\ \A i \in 1..Len(last.results) :
             \A f \in DOMAIN KeyOfField :
                IF ValuesAt(Dictionaries(last.response)[i], KeyOfField[f]) = {}
                THEN last.results[i][f] = NoResult[f]
                ELSE last.results[i][f] =
                        Decoded(Dictionaries(last.response)[i])[f]

\* a dictionary with a key outside the vocabulary (the class), with the
\* account, and without a label
C17_Witness ==
    /\ last.op = "QueryItem"
    /\ last.response.type = "CFDictionary"
    /\ ValuesAt(last.response.entries, SecClassKey) # {}
    /\ last.err = ""
    /\ Len(last.results) = 1
    /\ last.results[1].Account = Str(<<97>>)
    /\ last.results[1].Label = <<>>
    /\ last.results[1].Data # GoNilBytes

=============================================================================
